---- MODULE Spec2Model ----
(***************************************************************************)
(* A model of the price pipeline of cabohol/price-scraper:                 *)
(*   src/scraper.py    CaragaPriceScraper (enricher, upserter)             *)
(*   src/scheduler.py  document selector and daily job                     *)
(*                                                                         *)
(* JSON values (the inference service's answer, the cells of the store)    *)
(* are records of one shape, [t, n, s, b]:                                 *)
(*   t = "missing"  the key is absent from the object                      *)
(*   t = "null"     JSON null / Python None / SQL NULL                     *)
(*   t = "num"      a number; n holds it in tenths (12.5 is 125), b says   *)
(*                  whether it is a Python int (TRUE) or a float (FALSE)   *)
(*   t = "bool"     b holds it                                             *)
(*   t = "str"      s holds it                                             *)
(*   t = "arr"      a JSON array; n holds its length, s its Python str()   *)
(*   t = "time"     a timestamp; n holds the clock reading                 *)
(***************************************************************************)
EXTENDS Integers, Sequences, FiniteSets, TLC

\* ------------------------------------------------------------ JSON values

JMissing == [t |-> "missing", n |-> 0, s |-> "", b |-> FALSE]
JNull == [t |-> "null", n |-> 0, s |-> "", b |-> FALSE]
JInt(k) == [t |-> "num", n |-> k * 10, s |-> "", b |-> TRUE]
JFloat(tenths) == [t |-> "num", n |-> tenths, s |-> "", b |-> FALSE]
JBool(x) == [t |-> "bool", n |-> 0, s |-> "", b |-> x]
JStr(x) == [t |-> "str", n |-> 0, s |-> x, b |-> FALSE]
JArr(len, shown) == [t |-> "arr", n |-> len, s |-> shown, b |-> FALSE]
JTime(c) == [t |-> "time", n |-> c, s |-> "", b |-> FALSE]

IsNone(v) == v.t \in {"missing", "null"}

\* ------------------------------------------------- Python's conversions

\* Truth value testing: None, False, 0, 0.0, "" and [] are false.
Truthy(v) ==
    CASE v.t = "num" -> v.n # 0
      [] v.t = "bool" -> v.b
      [] v.t = "str" -> v.s # ""
      [] v.t = "arr" -> v.n # 0
      [] v.t = "time" -> TRUE
      [] OTHER -> FALSE

\* x or d
PyOr(v, d) == IF Truthy(v) THEN v ELSE d

\* The strings of the model that float() and int() accept, with their value
\* in tenths.
NumericStrings == {"7", "7.5"}
IntegerStrings == {"7"}
StrTenths(x) == IF x = "7" THEN 70 ELSE IF x = "7.5" THEN 75 ELSE 0

\* float(v): defined on numbers, booleans and numeric strings; a ValueError or
\* TypeError otherwise.
CanFloat(v) ==
    \/ v.t \in {"num", "bool"}
    \/ v.t = "str" /\ v.s \in NumericStrings

PyFloat(v) ==
    CASE v.t = "num" -> JFloat(v.n)
      [] v.t = "bool" -> JFloat(IF v.b THEN 10 ELSE 0)
      [] OTHER -> JFloat(StrTenths(v.s))

\* int(v): truncates a float toward zero; accepts only integer literals among
\* the strings.
CanInt(v) ==
    \/ v.t \in {"num", "bool"}
    \/ v.t = "str" /\ v.s \in IntegerStrings

Trunc(tenths) ==
    IF tenths >= 0 THEN (tenths \div 10) * 10 ELSE -(((-tenths) \div 10) * 10)

PyInt(v) ==
    CASE v.t = "num" -> [JInt(0) EXCEPT !.n = Trunc(v.n)]
      [] v.t = "bool" -> JInt(IF v.b THEN 1 ELSE 0)
      [] OTHER -> [JInt(0) EXCEPT !.n = Trunc(StrTenths(v.s))]

PyBool(v) == JBool(Truthy(v))

\* str(v): the decimal rendering of a number, "True"/"False", the string itself.
Digits(k) == IF k < 0 THEN "-" \o ToString(-k) ELSE ToString(k)

NumStr(v) ==
    IF v.b THEN Digits(Trunc(v.n) \div 10)
    ELSE (IF v.n < 0 THEN "-" ELSE "")
         \o ToString((IF v.n < 0 THEN -v.n ELSE v.n) \div 10)
         \o "." \o ToString((IF v.n < 0 THEN -v.n ELSE v.n) % 10)

PyStr(v) ==
    CASE v.t = "num" -> JStr(NumStr(v))
      [] v.t = "bool" -> JStr(IF v.b THEN "True" ELSE "False")
      [] v.t = "str" -> v
      [] v.t = "arr" -> JStr(v.s)
      [] OTHER -> JStr("None")

\* ------------------------------------------------------ nutrition profile

FloatFields == {"carbs_per_100g", "protein_per_100g", "fat_per_100g", "fiber_per_100g"}
IntFields == {"calories_per_100g", "glycemic_index"}
FlagFields == {"is_diabetic_friendly", "is_vegetarian", "is_vegan", "is_halal",
               "is_kosher", "is_catholic"}
ProfileFields == FloatFields \cup IntFields \cup FlagFields \cup {"common_allergens"}

\* dict.get(key) and dict.get(key, default)
Get(obj, f) == IF obj[f].t = "missing" THEN JNull ELSE obj[f]
GetOr(obj, f, d) == IF obj[f].t = "missing" THEN d ELSE obj[f]

get_default_nutrition ==
    [f \in ProfileFields |->
        CASE f \in FloatFields -> JFloat(0)
          [] f = "calories_per_100g" -> JInt(0)
          [] f = "glycemic_index" -> JInt(50)
          [] f \in FlagFields -> JBool(TRUE)
          [] OTHER -> JStr("none")]

\* The value each field is converted from (the argument of float(), int(),
\* bool(), str() in validated_data).
Coerced(obj, f) ==
    CASE f \in FloatFields -> PyOr(Get(obj, f), JFloat(0))
      [] f = "calories_per_100g" -> PyOr(Get(obj, f), JInt(0))
      [] f = "glycemic_index" -> PyOr(Get(obj, f), JInt(50))
      [] f \in FlagFields -> GetOr(obj, f, JBool(TRUE))
      [] OTHER -> PyOr(Get(obj, f), JStr("none"))

\* Building validated_data raises (ValueError, TypeError) when a float() or an
\* int() is given a value it does not accept.
ValidationRaises(obj) ==
    \/ \E f \in FloatFields : ~CanFloat(Coerced(obj, f))
    \/ \E f \in IntFields : ~CanInt(Coerced(obj, f))

\* validated_data without the conversions: each value as the service gave it.
validated_data_unconverted(obj) == [f \in ProfileFields |-> Get(obj, f)]

validated_data(obj) ==
    [f \in ProfileFields |->
        CASE f \in FloatFields -> PyFloat(Coerced(obj, f))
          [] f \in IntFields -> PyInt(Coerced(obj, f))
          [] f \in FlagFields -> PyBool(Coerced(obj, f))
          [] OTHER -> PyStr(Coerced(obj, f))]

\* ------------------------------------------- the inference service's text

\* A parsed JSON document: an object with the profile's keys (absent keys are
\* JMissing), or valid JSON of another kind (array, scalar).
NoFields == [f \in ProfileFields |-> JMissing]
ObjectDoc(fields) == [kind |-> "object", fields |-> fields]
ArrayDoc == [kind |-> "array", fields |-> NoFields]
ScalarDoc == [kind |-> "scalar", fields |-> NoFields]

\* The message content is a sequence of tokens: a code fence (three
\* backquotes), the word json, white space, prose that is not JSON, or the text
\* of one JSON document.
Fence == [tok |-> "fence", doc |-> ScalarDoc]
JsonWord == [tok |-> "json", doc |-> ScalarDoc]
Ws == [tok |-> "ws", doc |-> ScalarDoc]
Prose == [tok |-> "prose", doc |-> ScalarDoc]
DocTok(d) == [tok |-> "doc", doc |-> d]

\* str.strip()
RECURSIVE LStrip(_)
LStrip(text) ==
    IF text # <<>> /\ Head(text).tok = "ws" THEN LStrip(Tail(text)) ELSE text

RECURSIVE RStrip(_)
RStrip(text) ==
    IF text # <<>> /\ text[Len(text)].tok = "ws"
    THEN RStrip(SubSeq(text, 1, Len(text) - 1))
    ELSE text

Strip(text) == RStrip(LStrip(text))

\* The position of the first fence of text at or after position from, or
\* Len(text) + 1.
RECURSIVE NextFence(_, _)
NextFence(text, from) ==
    IF from > Len(text) THEN Len(text) + 1
    ELSE IF text[from].tok = "fence" THEN from
    ELSE NextFence(text, from + 1)

\* The position of the last fence of text at or before position from, or 0.
RECURSIVE LastFence(_, _)
LastFence(text, from) ==
    IF from < 1 THEN 0
    ELSE IF text[from].tok = "fence" THEN from
    ELSE LastFence(text, from - 1)

\* ai_response.split(FENCE)[1] of a text that starts with a fence
SplitSecond(text) == SubSeq(text, 2, NextFence(text, 2) - 1)

\* ai_response.rsplit(FENCE, 1)[0]
RSplitFirst(text) ==
    IF LastFence(text, Len(text)) = 0 THEN text
    ELSE SubSeq(text, 1, LastFence(text, Len(text)) - 1)

\* Remove markdown code blocks
StripFence(content) ==
    LET ai_response == Strip(content)
    IN  IF ai_response # <<>> /\ Head(ai_response).tok = "fence"
        THEN LET inner == SplitSecond(ai_response)
                 body == IF inner # <<>> /\ Head(inner).tok = "json"
                         THEN Tail(inner) ELSE inner
             IN  Strip(RSplitFirst(body))
        ELSE ai_response

\* json.loads: white space around one document; a JSONDecodeError otherwise.
LoadsRaises(text) ==
    ~(Len(Strip(text)) = 1 /\ Strip(text)[1].tok = "doc")

Loads(text) == Strip(text)[1].doc

\* One answer of the service to one POST.
HttpError(status) == [kind |-> "http_error", status |-> status, text |-> <<>>]
Timeout == [kind |-> "timeout", status |-> 0, text |-> <<>>]
BadEnvelope == [kind |-> "bad_envelope", status |-> 200, text |-> <<>>]
Ok(text) == [kind |-> "ok", status |-> 200, text |-> text]

\* The try block from response.raise_for_status() on either returns
\* validated_data or raises.  raise_for_status raises HTTPError on a 4xx/5xx
\* status; a timeout or a connection error is raised by requests.post; a body
\* without choices[0].message.content raises KeyError; json.loads raises
\* JSONDecodeError; .get on a list or a scalar raises AttributeError.
TryRaises(answer) ==
    \/ answer.kind # "ok"
    \/ LoadsRaises(StripFence(answer.text))
    \/ Loads(StripFence(answer.text)).kind # "object"
    \/ ValidationRaises(Loads(StripFence(answer.text)).fields)

TryResult(answer) == validated_data(Loads(StripFence(answer.text)).fields)

\* ------------------------------------------------------------ the inputs

\* The number of keys of a well-formed answer that the service may get wrong
\* (absent, null, out of range, of another type) in one document.
MaxOverrides == 1

\* Tomato, as the service is asked to describe it.
FullFields ==
    [f \in ProfileFields |->
        CASE f = "carbs_per_100g" -> JFloat(39)
          [] f = "calories_per_100g" -> JInt(18)
          [] f = "protein_per_100g" -> JFloat(9)
          [] f = "fat_per_100g" -> JFloat(2)
          [] f = "fiber_per_100g" -> JFloat(12)
          [] f = "glycemic_index" -> JInt(15)
          [] f \in FlagFields -> JBool(TRUE)
          [] OTHER -> JStr("none")]

OddValues ==
    {JMissing, JNull, JInt(0), JFloat(5), JFloat(125), JInt(150), JInt(-5),
     JBool(TRUE), JBool(FALSE), JStr(""), JStr("abc"), JStr("7"), JStr("7.5"),
     JArr(0, "[]"), JArr(1, "['nuts']")}

Override(fields, g) ==
    [f \in ProfileFields |-> IF f \in DOMAIN g THEN g[f] ELSE fields[f]]

Objects ==
    {Override(base, g) :
        base \in {FullFields, NoFields},
        g \in UNION {[S -> OddValues] :
                        S \in {T \in SUBSET ProfileFields : Cardinality(T) <= MaxOverrides}}}

Full == DocTok(ObjectDoc(FullFields))

Texts ==
    {<<DocTok(ObjectDoc(o))>> : o \in Objects}
    \cup {<<>>, <<Prose>>, <<Prose, Full>>, <<Ws, Full, Ws>>,
          <<DocTok(ArrayDoc)>>, <<DocTok(ScalarDoc)>>,
          <<Fence, JsonWord, Ws, Full, Ws, Fence>>,
          <<Fence, Ws, Full, Fence>>,
          <<Fence, JsonWord, Ws, Full, Ws, Fence, Ws, Prose>>,
          <<Fence, Prose, Ws, Full, Ws, Fence>>,
          <<Fence, JsonWord, Ws, Full>>,
          <<Ws, Fence, JsonWord, Ws, DocTok(ArrayDoc), Fence>>}

Failures == {HttpError(429), HttpError(500), HttpError(401), Timeout, BadEnvelope}

Answers == Failures \cup {Ok(t) : t \in Texts}

\* ------------------------------------------------------------- the state

Procs == {"a", "b"}

VARIABLES
    store,        \* the rows of the ingredients table, in table order
    clock,        \* the reading of get_philippine_timestamp's clock
    active,       \* the scraper instances that run
    pc,           \* each instance's position in insert_to_supabase
    commodities,  \* insert_to_supabase's argument
    idx,          \* the position of item in commodities
    record,       \* the lookup's first row
    nutrition,    \* the profile get_ai_nutrition returned for item
    data,         \* the body of the write being sent
    inserted,
    updated,
    ret,          \* insert_to_supabase's return value
    log,          \* the calls insert_to_supabase has made, in order
    epc,          \* each instance's position in get_ai_nutrition
    retry_count,
    requests,     \* the POSTs one top-level get_ai_nutrition has sent
    waits,        \* the sleeps of one top-level get_ai_nutrition, in order
    answers,      \* the answers to those POSTs, in order
    eret,         \* get_ai_nutrition's return: [raised, profile]
    pdf,          \* the document extract_commodity_data was given
    xpc,          \* the position in extract_commodity_data
    page_num,
    table_num,    \* the position of table in the page's tables
    current_category,
    extracted,    \* extract_commodity_data's commodities list
    xerr,         \* whether extract_commodity_data's handler has run
    market_page,  \* the answer to get_latest_pdf_url's request
    spc,          \* the position in get_latest_pdf_url
    link_num,     \* the position of link in the page's links
    pdf_candidates,
    latest,       \* get_latest_pdf_url's return: None or a URL
    jpc,          \* the position in daily_update_job
    market_num,   \* the position of the market in MARKETS
    total_processed,
    outcomes,     \* what daily_update_job saw of each market it attempted
    job_ok,       \* daily_update_job's final report: None, or success or not
    rpc,          \* the position in run
    run_ret,      \* run's return value
    run_count,    \* run's count, the return of insert_to_supabase
    fpc,          \* each instance's position in fix_all_null_records
    null_records,
    fix_num,      \* the position of record in null_records
    fixed,
    mpc,          \* the position in main
    main_args,    \* main's arguments: whether pdf_url is given, and fix_nulls
    main_ret      \* main's return value, or "raised"

storeVars == <<store, clock>>
upsertVars == <<pc, commodities, idx, record, nutrition, data, inserted, updated, ret, log>>
enrichVars == <<epc, retry_count, requests, waits, answers, eret>>
extractVars == <<pdf, xpc, page_num, table_num, current_category, extracted, xerr>>
selectVars == <<market_page, spc, link_num, pdf_candidates, latest>>
jobVars == <<jpc, market_num, total_processed, outcomes, job_ok, rpc, run_ret, run_count>>
sweepVars == <<fpc, null_records, fix_num, fixed>>
mainVars == <<mpc, main_args, main_ret>>
outerVars == <<extractVars, selectVars, jobVars, sweepVars, mainVars>>
vars == <<store, clock, active, pc, commodities, idx, record, nutrition, data,
          inserted, updated, ret, log, epc, retry_count, requests, waits,
          answers, eret, outerVars>>

\* -------------------------------------------------------- get_ai_nutrition

max_retries_one_more == 3 + 1

max_retries == 3

\* A linear backoff: 60, 120, 180.
wait_time_linear(rc) == 60 * (rc + 1)

wait_time(rc) == 60 * (2 ^ rc)

\* The class of the exception the try block raises on an answer.
ExceptionClass(answer) ==
    CASE answer.kind = "http_error" -> "HTTPError"
      [] answer.kind = "timeout" -> "Timeout"
      [] answer.kind = "bad_envelope" -> "KeyError"
      [] LoadsRaises(StripFence(answer.text)) -> "JSONDecodeError"
      [] Loads(StripFence(answer.text)).kind # "object" -> "AttributeError"
      [] OTHER -> "ValueError"

\* Without the except Exception clause's breadth: only a JSONDecodeError is
\* caught by the second clause.
HandledBy_decode_only(cls) ==
    IF cls = "HTTPError" THEN "except HTTPError"
    ELSE IF cls = "JSONDecodeError" THEN "except Exception"
    ELSE "propagates"

\* The except clause that handles an exception of a class: HTTPError first,
\* then Exception, which every class here derives from.
HandledBy(cls) ==
    IF cls = "HTTPError" THEN "except HTTPError" ELSE "except Exception"

\* if e.response.status_code == 429 and retry_count < max_retries
RateLimited(answer, rc) == answer.status = 429 /\ rc < max_retries

Returned(profile) == [raised |-> FALSE, profile |-> profile]
Propagated == [raised |-> TRUE, profile |-> get_default_nutrition]

\* The entry of a top-level call, retry_count = 0.
EnterEnrich(p) ==
    /\ epc' = [epc EXCEPT ![p] = "post"]
    /\ retry_count' = [retry_count EXCEPT ![p] = 0]
    /\ requests' = [requests EXCEPT ![p] = 0]
    /\ waits' = [waits EXCEPT ![p] = <<>>]
    /\ answers' = [answers EXCEPT ![p] = <<>>]
    /\ eret' = [eret EXCEPT ![p] = Returned(get_default_nutrition)]

\* One activation of get_ai_nutrition, from its POST to its return or to the
\* sleep before the recursive call.
Post(p, answer) ==
    /\ epc[p] = "post"
    /\ requests' = [requests EXCEPT ![p] = @ + 1]
    /\ answers' = [answers EXCEPT ![p] = Append(@, answer)]
    /\ IF ~TryRaises(answer)
       THEN /\ eret' = [eret EXCEPT ![p] = Returned(TryResult(answer))]
            /\ epc' = [epc EXCEPT ![p] = "returned"]
            /\ UNCHANGED <<retry_count, waits>>
       ELSE IF HandledBy(ExceptionClass(answer)) = "except HTTPError"
                /\ RateLimited(answer, retry_count[p])
       THEN /\ waits' = [waits EXCEPT ![p] = Append(@, wait_time(retry_count[p]))]
            /\ retry_count' = [retry_count EXCEPT ![p] = @ + 1]
            /\ UNCHANGED <<epc, eret>>
       ELSE IF HandledBy(ExceptionClass(answer)) \in {"except HTTPError", "except Exception"}
       THEN /\ eret' = [eret EXCEPT ![p] = Returned(get_default_nutrition)]
            /\ epc' = [epc EXCEPT ![p] = "returned"]
            /\ UNCHANGED <<retry_count, waits>>
       ELSE /\ eret' = [eret EXCEPT ![p] = Propagated]
            /\ epc' = [epc EXCEPT ![p] = "returned"]
            /\ UNCHANGED <<retry_count, waits>>

\* ------------------------------------- get_ai_nutrition called on its own

NoRow == [c \in {"id"} |-> JNull]

InitLocals ==
    /\ pc = [p \in Procs |-> "idle"]
    /\ commodities = [p \in Procs |-> <<>>]
    /\ idx = [p \in Procs |-> 0]
    /\ record = [p \in Procs |-> NoRow]
    /\ nutrition = [p \in Procs |-> get_default_nutrition]
    /\ data = [p \in Procs |-> NoRow]
    /\ inserted = [p \in Procs |-> 0]
    /\ updated = [p \in Procs |-> 0]
    /\ ret = [p \in Procs |-> 0]
    /\ log = [p \in Procs |-> <<>>]
    /\ epc = [p \in Procs |-> "idle"]
    /\ retry_count = [p \in Procs |-> 0]
    /\ requests = [p \in Procs |-> 0]
    /\ waits = [p \in Procs |-> <<>>]
    /\ answers = [p \in Procs |-> <<>>]
    /\ eret = [p \in Procs |-> Returned(get_default_nutrition)]

\* a string, as its characters, or None
None == [none |-> TRUE, s |-> <<>>]
Text(s) == [none |-> FALSE, s |-> s]

NoDocument == [opens |-> FALSE, pages |-> <<>>]

InitExtract ==
    /\ pdf = NoDocument
    /\ xpc = "idle"
    /\ page_num = 0
    /\ table_num = 0
    /\ current_category = <<>>
    /\ extracted = <<>>
    /\ xerr = FALSE

NoPage == [ok |-> FALSE, links |-> <<>>]

InitSelect ==
    /\ market_page = NoPage
    /\ spc = "idle"
    /\ link_num = 0
    /\ pdf_candidates = <<>>
    /\ latest = None

InitJob ==
    /\ jpc = "idle"
    /\ market_num = 0
    /\ total_processed = 0
    /\ outcomes = <<>>
    /\ job_ok = "none"
    /\ rpc = "idle"
    /\ run_ret = FALSE
    /\ run_count = 0

InitSweep ==
    /\ fpc = [p \in Procs |-> "idle"]
    /\ null_records = [p \in Procs |-> <<>>]
    /\ fix_num = [p \in Procs |-> 0]
    /\ fixed = [p \in Procs |-> 0]

InitMain ==
    /\ mpc = "idle"
    /\ main_args = [pdf_url |-> FALSE, fix_nulls |-> FALSE]
    /\ main_ret = "none"

InitOuter ==
    /\ InitExtract
    /\ InitSelect
    /\ InitJob
    /\ InitSweep
    /\ InitMain

InitEnrich ==
    /\ store = <<>>
    /\ clock = 0
    /\ active = {"a"}
    /\ InitLocals
    /\ InitOuter

CallEnrich(p) ==
    /\ p \in active
    /\ pc[p] = "idle"
    /\ epc[p] = "idle"
    /\ EnterEnrich(p)
    /\ UNCHANGED <<storeVars, active, upsertVars, outerVars>>

AnswerEnrich(p) ==
    /\ p \in active
    /\ pc[p] = "idle"
    /\ epc[p] = "post"
    /\ \E answer \in Answers : Post(p, answer)
    /\ UNCHANGED <<storeVars, active, upsertVars, outerVars>>

NextEnrich ==
    \/ \E p \in Procs : CallEnrich(p)
    \/ \E p \in Procs : AnswerEnrich(p)

SpecEnrich == InitEnrich /\ [][NextEnrich]_vars

\* ------------------------------------------------------------- the store

MarketColumns == {"name", "category", "specifications", "typical_serving_size",
                  "estimated_price", "availability", "created_at", "updated_at"}
Columns == {"id"} \cup MarketColumns \cup ProfileFields

NullRow == [c \in Columns |-> JNull]

\* dict unpacking: the keys of g override those of f.
Merge(f, g) ==
    [k \in DOMAIN f \cup DOMAIN g |-> IF k \in DOMAIN g THEN g[k] ELSE f[k]]

\* A lookup that reads the first row of the table only.
SelectByName_first_row(rows, name, columns) ==
    IF rows # <<>> /\ rows[1]["name"] = JStr(name)
    THEN <<[c \in columns |-> rows[1][c]]>>
    ELSE <<>>

\* GET ?name=eq.<name>&select=<columns>: the rows of that name, in table order,
\* cut to the selected columns.
RECURSIVE SelectByName(_, _, _)
SelectByName(rows, name, columns) ==
    IF rows = <<>> THEN <<>>
    ELSE (IF Head(rows)["name"] = JStr(name)
          THEN <<[c \in columns |-> Head(rows)[c]]>>
          ELSE <<>>) \o SelectByName(Tail(rows), name, columns)

\* A PATCH that leaves the table with the rows of that id only.
ApplyPatch_only_that_id(rows, id, body) ==
    SelectSeq([k \in DOMAIN rows |-> Merge(rows[k], body)], LAMBDA r : r["id"] = id)

\* PATCH ?id=eq.<id>, answered 2xx: the keys of the body overwrite the columns
\* of the rows of that id.
ApplyPatch(rows, id, body) ==
    [k \in DOMAIN rows |-> IF rows[k]["id"] = id THEN Merge(rows[k], body) ELSE rows[k]]

\* A POST onto a table with a unique name: a row of the name is replaced.
ApplyInsert_unique_name(rows, body) ==
    LET others == SelectSeq(rows, LAMBDA r : r["name"] # body["name"]) IN
        Append(others, Merge(Merge(NullRow, body), [id |-> JInt(Len(rows) + 1)]))

\* POST, answered 2xx: a new row with the body's columns, the others NULL, and
\* an id the store assigns.
ApplyInsert(rows, body) ==
    Append(rows, Merge(Merge(NullRow, body), [id |-> JInt(Len(rows) + 1)]))

\* The answer to a write: a response with a status code, or an exception
\* raised by requests (connection error).
StatusCodes == {200, 304, 400}
WriteAnswers ==
    {[raised |-> FALSE, status |-> c] : c \in StatusCodes}
    \cup {[raised |-> TRUE, status |-> 0]}

\* The store applies a write exactly when it answers 2xx.
Applied(answer) == ~answer.raised /\ answer.status \in 200..299

\* -------------------------------------------------------- the line items

MaxItems == 2

Tomato ==
    [name |-> "Tomato", category |-> "VEGETABLES", specifications |-> JNull,
     unit |-> "kg", average_price |-> 8000]
Rice ==
    [name |-> "Rice", category |-> "RICE", specifications |-> JStr("Well milled"),
     unit |-> "sack", average_price |-> 123450]
Items == {Tomato, Rice}

Batches == UNION {[1..n -> Items] : n \in 0..MaxItems}

\* The rows the table may hold before a run: complete rows, rows of an earlier
\* schema revision with NULL nutrition columns.
SeedRow(name, category, profile) ==
    Merge(NullRow,
          Merge([name |-> JStr(name), category |-> JStr(category),
                 typical_serving_size |-> JStr("kg"),
                 estimated_price |-> JStr("P75.00 per kg"),
                 availability |-> JStr("available"),
                 created_at |-> JTime(0), updated_at |-> JTime(0)],
                profile))

TomatoComplete == SeedRow("Tomato", "VEGETABLES", FullFields)
TomatoNoIndex ==
    SeedRow("Tomato", "VEGETABLES", [FullFields EXCEPT !["glycemic_index"] = JNull])
TomatoNoFlag ==
    SeedRow("Tomato", "VEGETABLES", [FullFields EXCEPT !["is_vegan"] = JNull])
RiceBare == SeedRow("Rice", "RICE", [f \in ProfileFields |-> JNull])

WithIds(rows) == [k \in DOMAIN rows |-> Merge(rows[k], [id |-> JInt(k)])]

SeedStores ==
    {WithIds(rows) :
        rows \in {<<>>, <<TomatoComplete>>, <<TomatoNoIndex>>, <<TomatoNoFlag>>,
                  <<RiceBare, TomatoComplete>>}}

\* The answers of the inference service during an upsert.
OddFields ==
    [FullFields EXCEPT !["glycemic_index"] = JMissing, !["is_vegan"] = JNull]
FewAnswers ==
    {HttpError(429), HttpError(500), Ok(<<Full>>), Ok(<<DocTok(ObjectDoc(OddFields))>>)}

\* ------------------------------------------------------ insert_to_supabase

get_philippine_timestamp(now) == JTime(now)

\* "{average_price:.2f}" of a price held in centavos
Money(centavos) ==
    ToString(centavos \div 100) \o "."
    \o (IF centavos % 100 < 10 THEN "0" ELSE "") \o ToString(centavos % 100)

\* The peso sign is written P.
estimated_price(item) == JStr("P" \o Money(item.average_price) \o " per " \o item.unit)

\* The test over the whole profile, the six dietary flags included.
nutrition_fields_with_flags == ProfileFields

nutrition_fields ==
    {"carbs_per_100g", "calories_per_100g", "protein_per_100g", "fat_per_100g",
     "fiber_per_100g", "glycemic_index", "common_allergens"}

\* record.get(field)
Field(rec, f) == IF f \in DOMAIN rec THEN rec[f] ELSE JNull

\* The test of an earlier revision: one column stands for all.
has_null_carbs(rec) == IsNone(Field(rec, "carbs_per_100g"))

has_any_null_nutrition(rec) ==
    \E f \in nutrition_fields : IsNone(Field(rec, f))

\* The select of the lookup.
LookupColumns == {"id"} \cup nutrition_fields

\* The price-only body with a profile unpacked into it, as in the other branch.
price_only_data_with_profile(item, now) ==
    Merge([specifications |-> item.specifications,
           estimated_price |-> estimated_price(item),
           availability |-> JStr("available"),
           updated_at |-> get_philippine_timestamp(now)],
          get_default_nutrition)

\* COMPLETE DATA - Update price only
price_only_data(item, now) ==
    [specifications |-> item.specifications,
     estimated_price |-> estimated_price(item),
     availability |-> JStr("available"),
     updated_at |-> get_philippine_timestamp(now)]

\* The refresh without the unpacked profile: the price fields only.
full_refresh_data_price_only(item, now, profile) ==
    [specifications |-> item.specifications,
     estimated_price |-> estimated_price(item),
     availability |-> JStr("available"),
     updated_at |-> get_philippine_timestamp(now)]

\* HAS NULLS - the price fields and the whole profile
full_refresh_data(item, now, profile) ==
    Merge([specifications |-> item.specifications,
           estimated_price |-> estimated_price(item),
           availability |-> JStr("available"),
           updated_at |-> get_philippine_timestamp(now)],
          profile)

\* The new record without its creation timestamp.
insert_data_no_created_at(item, now, profile) ==
    Merge([name |-> JStr(item.name),
           category |-> JStr(item.category),
           specifications |-> item.specifications,
           typical_serving_size |-> JStr(item.unit),
           estimated_price |-> estimated_price(item),
           availability |-> JStr("available"),
           updated_at |-> get_philippine_timestamp(now + 1)],
          profile)

\* NEW ingredient
insert_data(item, now, profile) ==
    Merge([name |-> JStr(item.name),
           category |-> JStr(item.category),
           specifications |-> item.specifications,
           typical_serving_size |-> JStr(item.unit),
           estimated_price |-> estimated_price(item),
           availability |-> JStr("available"),
           created_at |-> get_philippine_timestamp(now),
           updated_at |-> get_philippine_timestamp(now + 1)],
          profile)

\* The comparison off by one: a 400 is not a failure.
write_failed_above_400(status) == status > 400

\* if update_response.status_code >= 400 / if insert_response.status_code >= 400
write_failed(status) == status >= 400

\* The entries of log.
Event(op, i, status, raised, row) ==
    [op |-> op, i |-> i, status |-> status, raised |-> raised, row |-> row]

Item(p) == commodities[p][idx[p]]

\* The end of one iteration of the for loop, with the counters it leaves: the
\* next item, or the return of inserted + updated after the last one.
AfterItem(p, ins, upd) ==
    /\ inserted' = [inserted EXCEPT ![p] = ins]
    /\ updated' = [updated EXCEPT ![p] = upd]
    /\ IF idx[p] < Len(commodities[p])
       THEN /\ idx' = [idx EXCEPT ![p] = @ + 1]
            /\ pc' = [pc EXCEPT ![p] = "lookup"]
            /\ ret' = ret
       ELSE /\ idx' = idx
            /\ pc' = [pc EXCEPT ![p] = "done"]
            /\ ret' = [ret EXCEPT ![p] = ins + upd]

\* The exception ends the loop instead of the iteration.
OnException_break(p) ==
    /\ inserted' = inserted
    /\ updated' = updated
    /\ idx' = idx
    /\ pc' = [pc EXCEPT ![p] = "done"]
    /\ ret' = [ret EXCEPT ![p] = inserted[p] + updated[p]]

\* except Exception: log the error and continue with the next item.
OnException(p) == AfterItem(p, inserted[p], updated[p])

\* The call: an empty input returns 0 at once.
Begin(p, batch) ==
    /\ p \in active
    /\ pc[p] = "idle"
    /\ epc[p] = "idle"
    /\ commodities' = [commodities EXCEPT ![p] = batch]
    /\ IF batch = <<>>
       THEN /\ pc' = [pc EXCEPT ![p] = "done"]
            /\ idx' = idx
       ELSE /\ pc' = [pc EXCEPT ![p] = "lookup"]
            /\ idx' = [idx EXCEPT ![p] = 1]
    /\ inserted' = [inserted EXCEPT ![p] = 0]
    /\ updated' = [updated EXCEPT ![p] = 0]
    /\ ret' = [ret EXCEPT ![p] = 0]

Call(p) ==
    /\ pc[p] = "idle"
    /\ \E batch \in Batches : Begin(p, batch)
    /\ UNCHANGED <<storeVars, active, record, nutrition, data, log, enrichVars, outerVars>>

\* The lookup of the item fails: requests.get raises, or the body is not a
\* list of rows (an error object has no [0]).
LookupFails(p) ==
    /\ p \in active
    /\ pc[p] = "lookup"
    /\ log' = [log EXCEPT ![p] = Append(@, Event("lookup", idx[p], 0, TRUE, NoRow))]
    /\ OnException(p)
    /\ UNCHANGED <<storeVars, active, commodities, record, nutrition, data, enrichVars, outerVars>>

\* The lookup of the item is answered with the rows of its name: the branch
\* on check_response.json() and on has_nulls, up to the PATCH of a complete
\* record or to the call of get_ai_nutrition.
Lookup(p) ==
    /\ p \in active
    /\ pc[p] = "lookup"
    /\ LET rows == SelectByName(store, Item(p).name, LookupColumns)
       IN  IF rows # <<>>
           THEN /\ record' = [record EXCEPT ![p] = rows[1]]
                /\ log' = [log EXCEPT ![p] =
                             Append(@, Event("lookup", idx[p], 200, FALSE, rows[1]))]
                /\ IF ~has_any_null_nutrition(rows[1])
                   THEN /\ data' = [data EXCEPT ![p] = price_only_data(Item(p), clock)]
                        /\ clock' = clock + 1
                        /\ pc' = [pc EXCEPT ![p] = "patch"]
                        /\ UNCHANGED enrichVars
                   ELSE /\ pc' = [pc EXCEPT ![p] = "enrich_update"]
                        /\ EnterEnrich(p)
                        /\ UNCHANGED <<data, clock>>
           ELSE /\ record' = [record EXCEPT ![p] = NoRow]
                /\ log' = [log EXCEPT ![p] =
                             Append(@, Event("lookup", idx[p], 200, FALSE, NoRow))]
                /\ pc' = [pc EXCEPT ![p] = "enrich_insert"]
                /\ EnterEnrich(p)
                /\ UNCHANGED <<data, clock>>
    /\ UNCHANGED <<store, active, commodities, idx, nutrition, inserted, updated, ret, outerVars>>

\* One answer of the inference service to the call made for the item.
AnswerUpsert(p) ==
    /\ p \in active
    /\ pc[p] \in {"enrich_update", "enrich_insert"}
    /\ epc[p] = "post"
    /\ \E answer \in FewAnswers : Post(p, answer)
    /\ UNCHANGED <<storeVars, active, upsertVars, outerVars>>

\* get_ai_nutrition has returned: time.sleep(3), then the body of the write.
Enriched(p) ==
    /\ p \in active
    /\ pc[p] \in {"enrich_update", "enrich_insert"}
    /\ epc[p] = "returned"
    /\ epc' = [epc EXCEPT ![p] = "idle"]
    /\ retry_count' = [retry_count EXCEPT ![p] = 0]
    /\ requests' = [requests EXCEPT ![p] = 0]
    /\ waits' = [waits EXCEPT ![p] = <<>>]
    /\ answers' = [answers EXCEPT ![p] = <<>>]
    /\ eret' = eret
    /\ IF eret[p].raised
       THEN /\ log' = [log EXCEPT ![p] =
                         Append(@, Event("enrich", idx[p], 0, TRUE, NoRow))]
            /\ OnException(p)
            /\ UNCHANGED <<nutrition, data, clock>>
       ELSE /\ nutrition' = [nutrition EXCEPT ![p] = eret[p].profile]
            /\ log' = [log EXCEPT ![p] =
                         @ \o <<Event("enrich", idx[p], 0, FALSE, eret[p].profile),
                                Event("sleep", idx[p], 3, FALSE, NoRow)>>]
            /\ IF pc[p] = "enrich_update"
               THEN /\ data' = [data EXCEPT ![p] =
                                  full_refresh_data(Item(p), clock, eret[p].profile)]
                    /\ clock' = clock + 1
                    /\ pc' = [pc EXCEPT ![p] = "patch"]
               ELSE /\ data' = [data EXCEPT ![p] =
                                  insert_data(Item(p), clock, eret[p].profile)]
                    /\ clock' = clock + 2
                    /\ pc' = [pc EXCEPT ![p] = "insert"]
            /\ UNCHANGED <<idx, inserted, updated, ret>>
    /\ UNCHANGED <<store, active, commodities, record, outerVars>>

\* requests.patch by the record's id, and the count of its outcome.
Patch(p) ==
    /\ p \in active
    /\ pc[p] = "patch"
    /\ \E answer \in WriteAnswers :
          /\ store' = IF Applied(answer)
                      THEN ApplyPatch(store, record[p]["id"], data[p])
                      ELSE store
          /\ log' = [log EXCEPT ![p] =
                       Append(@, Event("patch", idx[p], answer.status, answer.raised, data[p]))]
          /\ IF answer.raised
             THEN OnException(p)
             ELSE AfterItem(p, inserted[p],
                            IF write_failed(answer.status) THEN updated[p] ELSE updated[p] + 1)
    /\ UNCHANGED <<clock, active, commodities, record, nutrition, data, enrichVars, outerVars>>

\* requests.post of the new record, and the count of its outcome.
Insert(p) ==
    /\ p \in active
    /\ pc[p] = "insert"
    /\ \E answer \in WriteAnswers :
          /\ store' = IF Applied(answer) THEN ApplyInsert(store, data[p]) ELSE store
          /\ log' = [log EXCEPT ![p] =
                       Append(@, Event("insert", idx[p], answer.status, answer.raised, data[p]))]
          /\ IF answer.raised
             THEN OnException(p)
             ELSE AfterItem(p, IF write_failed(answer.status) THEN inserted[p] ELSE inserted[p] + 1,
                            updated[p])
    /\ UNCHANGED <<clock, active, commodities, record, nutrition, data, enrichVars, outerVars>>

Init ==
    /\ store \in SeedStores
    /\ clock = 1
    /\ active = {"a"}
    /\ InitLocals
    /\ InitOuter

Next ==
    \/ \E p \in Procs : Call(p)
    \/ \E p \in Procs : LookupFails(p)
    \/ \E p \in Procs : Lookup(p)
    \/ \E p \in Procs : AnswerUpsert(p)
    \/ \E p \in Procs : Enriched(p)
    \/ \E p \in Procs : Patch(p)
    \/ \E p \in Procs : Insert(p)

Spec == Init /\ [][Next]_vars

\* ------------------------------------------- claims about get_ai_nutrition

LastAnswer(p) == answers[p][Len(answers[p])]

EnrichReturned(p) == p \in active /\ epc[p] = "returned"

\* The fallback profile as the specification words it: all five macros 0,
\* glycemic index 50, all six dietary flags true, allergens "none".
IsFallback(profile) ==
    /\ \A f \in FloatFields \cup {"calories_per_100g"} :
          profile[f].t = "num" /\ profile[f].n = 0
    /\ profile["glycemic_index"].t = "num" /\ profile["glycemic_index"].n = 50 * 10
    /\ \A f \in FlagFields : profile[f].t = "bool" /\ profile[f].b
    /\ profile["common_allergens"] = JStr("none")

\* C2: whatever the inference service does (any JSON object, missing or null
\* fields, non-JSON or empty text, non-object JSON, HTTP error, timeout,
\* repeated rate limiting), the profile get_ai_nutrition returns has all 13
\* fields and none of them is null.
C2_NoNullProfile ==
    \A p \in Procs :
        EnrichReturned(p) =>
            /\ ~eret[p].raised
            /\ DOMAIN eret[p].profile = ProfileFields
            /\ Cardinality(DOMAIN eret[p].profile) = 13
            /\ \A f \in ProfileFields : ~IsNone(eret[p].profile[f])

\* A call returned the validated profile of an object with a null field.
C2_Witness ==
    \E p \in Procs :
        /\ EnrichReturned(p)
        /\ LastAnswer(p).kind = "ok"
        /\ ~TryRaises(LastAnswer(p))
        /\ \E f \in ProfileFields :
              Loads(StripFence(LastAnswer(p).text)).fields[f] = JNull
        /\ \E f \in ProfileFields :
              Loads(StripFence(LastAnswer(p).text)).fields[f] = JMissing

\* C3: for every inference response, also one whose JSON carries an integer
\* glycemic_index outside 0..100 (150, -5), the glycemic index of the returned
\* profile lies in 0..100.
C3_GlycemicIndexInRange ==
    \A p \in Procs :
        EnrichReturned(p) =>
            /\ eret[p].profile["glycemic_index"].n >= 0
            /\ eret[p].profile["glycemic_index"].n <= 100 * 10

\* The answers after which the specification promises the fallback profile: an
\* HTTP error (a 429 that ends the call is the exhaustion of the retries), a
\* timeout or connection error, a body that is not the expected JSON object.
PermanentFailure(answer) ==
    \/ answer.kind \in {"http_error", "timeout", "bad_envelope"}
    \/ LoadsRaises(StripFence(answer.text))
    \/ Loads(StripFence(answer.text)).kind # "object"

\* C4: get_ai_nutrition never propagates an error and always terminates; after
\* a non-rate-limit HTTP error, a timeout or connection error, an undecodable
\* response or the exhaustion of the rate-limit retries it returns exactly the
\* fallback profile.  Termination: a call that has not returned can always
\* take its next answer, every answer either ends the call or raises the
\* number of requests sent, and a call that has sent 4 requests has returned.
C4_FallbackNeverRaises ==
    \A p \in Procs :
        /\ EnrichReturned(p) =>
              /\ ~eret[p].raised
              /\ PermanentFailure(LastAnswer(p)) => IsFallback(eret[p].profile)
        /\ epc[p] = "post" =>
              /\ ENABLED AnswerEnrich(p)
              /\ requests[p] = Len(answers[p])
              /\ requests[p] < 4

\* A call returned after each kind of permanent failure.
C4_Witness ==
    \E p \in Procs :
        /\ EnrichReturned(p)
        /\ PermanentFailure(LastAnswer(p))
        /\ LastAnswer(p).kind = "ok"
        /\ Len(answers[p]) > 1

\* C5, as claimed: when every request is answered with HTTP 429, one
\* top-level call sends at most 3 requests in total before it returns the
\* fallback profile.
C5_AtMostThreeRequests ==
    \A p \in Procs :
        (\A k \in 1..Len(answers[p]) : answers[p][k] = HttpError(429))
            => requests[p] <= 3

\* C5, amended: when every request is answered with HTTP 429, one top-level
\* call sends at most 4 requests in total (the first attempt and 3 retries),
\* and it returns, with the fallback profile, after exactly 4.
C5_AtMostFourRequests ==
    \A p \in Procs :
        (\A k \in 1..Len(answers[p]) : answers[p][k] = HttpError(429))
            => /\ requests[p] <= 4
               /\ requests[p] = Len(answers[p])
               /\ EnrichReturned(p) =>
                    requests[p] = 4 /\ IsFallback(eret[p].profile)

\* A call returned after four answers, all of them 429.
C5_Witness ==
    \E p \in Procs :
        /\ EnrichReturned(p)
        /\ Len(answers[p]) = 4
        /\ \A k \in 1..4 : answers[p][k] = HttpError(429)

\* C6: within one top-level call a retry happens only after an HTTP 429
\* answer, the wait before the k-th retry is 60 * 2^(k-1) seconds (60, then
\* the double of the previous wait), and any other failure causes no wait and
\* no retry.
C6_BackoffDoubles ==
    \A p \in Procs :
        LET n == Len(answers[p])
        IN  /\ \A k \in 1..(n - 1) : answers[p][k] = HttpError(429)
            /\ Len(waits[p]) = IF epc[p] = "returned" THEN n - 1 ELSE n
            /\ \A k \in 1..Len(waits[p]) :
                  /\ waits[p][k] = 60 * (2 ^ (k - 1))
                  /\ k = 1 => waits[p][k] = 60
                  /\ k > 1 => waits[p][k] = 2 * waits[p][k - 1]

\* A call slept 60, 120 and 240 seconds, and then failed otherwise.
C6_Witness ==
    \E p \in Procs :
        /\ EnrichReturned(p)
        /\ waits[p] = <<60, 120, 240>>
        /\ LastAnswer(p) = Timeout

\* ----------------------------------------- claims about insert_to_supabase

\* The tracked nutrition columns, as the specification's reconciliation rule
\* uses them.
TrackedColumns ==
    {"carbs_per_100g", "calories_per_100g", "protein_per_100g", "fat_per_100g",
     "fiber_per_100g", "glycemic_index", "common_allergens"}

AnyTrackedNull(rec) == \E c \in TrackedColumns : rec[c].t = "null"

PriceColumns == {"specifications", "estimated_price", "availability", "updated_at"}

\* The lookups of log[p] that found a record, and those that found none.
FoundAt(p, k) ==
    log[p][k].op = "lookup" /\ ~log[p][k].raised /\ log[p][k].row # NoRow
NotFoundAt(p, k) ==
    log[p][k].op = "lookup" /\ ~log[p][k].raised /\ log[p][k].row = NoRow

\* The log's entries about the i-th item, and their operations.
ItemEvents(p, i) == SelectSeq(log[p], LAMBDA e : e.i = i)
Ops(events) == [k \in DOMAIN events |-> events[k].op]
IsPrefix(s, t) == Len(s) <= Len(t) /\ s = SubSeq(t, 1, Len(s))

\* insert_to_supabase is past its i-th item.
ItemDone(p, i) == pc[p] = "done" \/ idx[p] > i

Succeeded2xx(e) == e.op \in {"patch", "insert"} /\ ~e.raised /\ e.status \in 200..299
SucceededBelow400(e) == e.op \in {"patch", "insert"} /\ ~e.raised /\ e.status < 400
FailedStep(e) == e.raised \/ (e.op \in {"patch", "insert"} /\ e.status \notin 200..299)

\* C1: for every item whose lookup finds a record: if a tracked nutrition
\* column of the record is null, get_ai_nutrition is called (and has returned)
\* before the patch is issued and the patch carries the whole returned
\* profile; if none is null, get_ai_nutrition is not called for the item.
C1_EnrichIffTrackedNull ==
    \A p \in Procs : \A k \in DOMAIN log[p] :
        FoundAt(p, k) =>
            LET i == log[p][k].i
                events == ItemEvents(p, i)
            IN  IF AnyTrackedNull(log[p][k].row)
                THEN /\ IsPrefix(Ops(events), <<"lookup", "enrich", "sleep", "patch">>)
                     /\ (idx[p] = i /\ pc[p] = "patch") =>
                            /\ Len(events) = 3
                            /\ \A f \in ProfileFields : data[p][f] = events[2].row[f]
                     /\ Len(events) = 4 =>
                            /\ ProfileFields \subseteq DOMAIN events[4].row
                            /\ \A f \in ProfileFields : events[4].row[f] = events[2].row[f]
                ELSE /\ \A m \in DOMAIN events : events[m].op # "enrich"
                     /\ idx[p] = i => /\ pc[p] \notin {"enrich_update", "enrich_insert"}
                                      /\ epc[p] = "idle"

\* A record with a null tracked column was patched, successfully, with the
\* profile returned for it.
C1_Witness ==
    \E p \in Procs : \E k \in DOMAIN log[p] :
        /\ FoundAt(p, k)
        /\ AnyTrackedNull(log[p][k].row)
        /\ Len(ItemEvents(p, log[p][k].i)) = 4
        /\ ItemEvents(p, log[p][k].i)[4].status = 200
        /\ ItemEvents(p, log[p][k].i)[2].row = FullFields

\* C7: when the item's name is found and no tracked nutrition column of the
\* record is null, the patch contains only specifications, estimated_price,
\* availability and updated_at, and every nutrition column, the name, the
\* category and created_at of the persisted records are unchanged by the step.
C7_PriceOnlyPatch ==
    [][\A p \in Procs :
          (pc[p] = "patch" /\ log'[p] # log[p] /\ ~AnyTrackedNull(record[p])) =>
              /\ DOMAIN log'[p][Len(log'[p])].row = PriceColumns
              /\ log'[p][Len(log'[p])].op = "patch"
              /\ Len(store') = Len(store)
              /\ \A k \in DOMAIN store :
                    \A c \in ProfileFields \cup {"id", "name", "category", "created_at"} :
                        store'[k][c] = store[k][c]]_vars

\* A price-only patch was applied: the record shows the item's price and its
\* nutrition columns as they were.
C7_Witness ==
    \E p \in Procs : \E k \in DOMAIN log[p] :
        /\ FoundAt(p, k)
        /\ ~AnyTrackedNull(log[p][k].row)
        /\ Len(ItemEvents(p, log[p][k].i)) = 2
        /\ ItemEvents(p, log[p][k].i)[2].op = "patch"
        /\ ItemEvents(p, log[p][k].i)[2].status = 200
        /\ \E r \in DOMAIN store :
              /\ store[r]["id"] = log[p][k].row["id"]
              /\ store[r]["estimated_price"] = JStr("P80.00 per kg")
              /\ store[r]["carbs_per_100g"] = JFloat(39)

\* C8: when the lookup returns no record, get_ai_nutrition is called exactly
\* once for the item and then exactly one insert is issued, whose record
\* carries the item's name and category, the market fields, every field of the
\* returned profile (none null), created_at and updated_at; no patch is issued
\* for the item.
C8_FullInsert ==
    \A p \in Procs : \A k \in DOMAIN log[p] :
        NotFoundAt(p, k) =>
            LET i == log[p][k].i
                item == commodities[p][i]
                events == ItemEvents(p, i)
            IN  /\ IsPrefix(Ops(events), <<"lookup", "enrich", "sleep", "insert">>)
                /\ ItemDone(p, i) => Len(events) = 4
                /\ Len(events) = 4 =>
                      LET body == events[4].row
                      IN  /\ DOMAIN body = (MarketColumns \cup ProfileFields)
                          /\ body["name"] = JStr(item.name)
                          /\ body["category"] = JStr(item.category)
                          /\ body["specifications"] = item.specifications
                          /\ body["typical_serving_size"] = JStr(item.unit)
                          /\ body["estimated_price"].t = "str"
                          /\ body["availability"] = JStr("available")
                          /\ body["created_at"].t = "time"
                          /\ body["updated_at"].t = "time"
                          /\ \A f \in ProfileFields :
                                /\ body[f] = events[2].row[f]
                                /\ ~IsNone(body[f])

\* A new record was inserted, successfully, and is in the store.
C8_Witness ==
    \E p \in Procs : \E k \in DOMAIN log[p] :
        /\ NotFoundAt(p, k)
        /\ Len(ItemEvents(p, log[p][k].i)) = 4
        /\ ItemEvents(p, log[p][k].i)[4].status = 200
        /\ \E r \in DOMAIN store :
              /\ store[r]["name"] = JStr(commodities[p][log[p][k].i].name)
              /\ store[r]["created_at"].t = "time"
              /\ store[r]["created_at"].n > 0

\* C9: a failed write or an exception while handling one item never aborts
\* the batch: when insert_to_supabase returns, every item of the input has
\* been looked up, in order, and every item whose lookup was answered has had
\* its write sent; a step that fails leaves the store as it was, and no step
\* removes a row or undoes a write.
C9_BatchNeverAborts ==
    /\ [](\A p \in Procs :
            pc[p] = "done" =>
                /\ LET lookups == SelectSeq(log[p], LAMBDA e : e.op = "lookup")
                   IN  /\ Len(lookups) = Len(commodities[p])
                       /\ \A i \in DOMAIN lookups : lookups[i].i = i
                /\ \A i \in DOMAIN commodities[p] :
                      LET events == ItemEvents(p, i)
                      IN  /\ events # <<>>
                          /\ ~events[1].raised =>
                                events[Len(events)].op \in {"patch", "insert"})
    /\ [][/\ Len(store') >= Len(store)
          /\ \A p \in Procs :
                (log'[p] # log[p] /\ FailedStep(log'[p][Len(log'[p])])) => store' = store]_vars

\* A batch of two returned: the write of its first item was applied, the
\* second item's write failed, and the first write is in the store.
C9_Witness ==
    \E p \in Procs :
        /\ pc[p] = "done"
        /\ Len(commodities[p]) = 2
        /\ \E k \in DOMAIN log[p] :
              /\ log[p][k].op = "insert" /\ log[p][k].i = 1 /\ log[p][k].status = 200
        /\ \E k \in DOMAIN log[p] :
              /\ log[p][k].op \in {"insert", "patch"} /\ log[p][k].i = 2
              /\ FailedStep(log[p][k])
        /\ \E r \in DOMAIN store : store[r]["name"] = JStr(commodities[p][1].name)

\* C10, as claimed: the value returned equals the number of items whose
\* insert or patch was answered with a 2xx response; an empty input returns 0.
C10_CountsSuccess2xx ==
    \A p \in Procs :
        pc[p] = "done" =>
            ret[p] = Cardinality({k \in DOMAIN log[p] : Succeeded2xx(log[p][k])})

\* C10, amended: the value returned equals the number of items whose insert
\* or patch was answered with a status code below 400; items whose write was
\* answered 400 or above or whose handling raised are not counted, and an
\* empty input returns 0.
C10_CountsBelow400 ==
    \A p \in Procs :
        pc[p] = "done" =>
            /\ ret[p] = Cardinality({k \in DOMAIN log[p] : SucceededBelow400(log[p][k])})
            /\ ret[p] = Cardinality({i \in DOMAIN commodities[p] :
                            \E k \in DOMAIN log[p] :
                                log[p][k].i = i /\ SucceededBelow400(log[p][k])})
            /\ commodities[p] = <<>> => ret[p] = 0

\* A batch of two returned 1: one write was answered 2xx, the other 400.
C10_Witness ==
    \E p \in Procs :
        /\ pc[p] = "done"
        /\ ret[p] = 1
        /\ \E k \in DOMAIN log[p] : Succeeded2xx(log[p][k])
        /\ \E k \in DOMAIN log[p] :
              log[p][k].op \in {"patch", "insert"} /\ log[p][k].status = 400

\* ------------------------------------------------- text, as characters

LowerLetters == <<"a", "b", "c", "d", "e", "f", "g", "h", "i", "j", "k", "l", "m", "n", "o", "p", "q", "r", "s", "t", "u", "v", "w", "x", "y", "z">>
UpperLetters == <<"A", "B", "C", "D", "E", "F", "G", "H", "I", "J", "K", "L", "M", "N", "O", "P", "Q", "R", "S", "T", "U", "V", "W", "X", "Y", "Z">>
DigitChars == <<"0", "1", "2", "3", "4", "5", "6", "7", "8", "9">>

UpperChar(ch) ==
    IF \E k \in 1..26 : LowerLetters[k] = ch
    THEN UpperLetters[CHOOSE k \in 1..26 : LowerLetters[k] = ch]
    ELSE ch

upper(s) == [k \in 1..Len(s) |-> UpperChar(s[k])]

RECURSIVE lstrip(_)
lstrip(s) == IF s # <<>> /\ Head(s) = " " THEN lstrip(Tail(s)) ELSE s

RECURSIVE rstrip(_)
rstrip(s) ==
    IF s # <<>> /\ s[Len(s)] = " " THEN rstrip(SubSeq(s, 1, Len(s) - 1)) ELSE s

strip(s) == rstrip(lstrip(s))

\* pattern in s
Contains(pattern, s) ==
    \E k \in 0..(Len(s) - Len(pattern)) : SubSeq(s, k + 1, k + Len(pattern)) = pattern

\* s.replace(',', '')
replace_commas(s) == SelectSeq(s, LAMBDA ch : ch # ",")

IsDigit(ch) == \E k \in 1..10 : DigitChars[k] = ch
DigitValue(ch) == (CHOOSE k \in 1..10 : DigitChars[k] = ch) - 1
AllDigits(s) == \A k \in 1..Len(s) : IsDigit(s[k])

RECURSIVE DigitsValue(_)
DigitsValue(s) ==
    IF s = <<>> THEN 0 ELSE 10 * DigitsValue(SubSeq(s, 1, Len(s) - 1)) + DigitValue(s[Len(s)])

Unsigned(s) == IF s # <<>> /\ Head(s) \in {"+", "-"} THEN Tail(s) ELSE s
PointAt(s) == IF \E k \in 1..Len(s) : s[k] = "." THEN CHOOSE k \in 1..Len(s) : s[k] = "." ELSE 0
WholePart(s) == IF PointAt(s) = 0 THEN s ELSE SubSeq(s, 1, PointAt(s) - 1)
FractionPart(s) == IF PointAt(s) = 0 THEN <<>> ELSE SubSeq(s, PointAt(s) + 1, Len(s))

\* float(s) accepts a decimal numeral: an optional sign, digits, and an
\* optional point with digits on at least one side of it.  The prices of the
\* documents have at most two decimals, so the value is exact in centavos.
float_accepts(s) ==
    LET u == Unsigned(s) IN
        /\ AllDigits(WholePart(u))
        /\ AllDigits(FractionPart(u))
        /\ Len(WholePart(u)) + Len(FractionPart(u)) > 0
        /\ Len(FractionPart(u)) <= 2

Centavos(s) ==
    LET u == Unsigned(s)
        f == FractionPart(u)
        cents == IF Len(f) = 0 THEN 0
                 ELSE IF Len(f) = 1 THEN 10 * DigitsValue(f)
                 ELSE DigitsValue(f)
        magnitude == 100 * DigitsValue(WholePart(u)) + cents
    IN  IF s # <<>> /\ Head(s) = "-" THEN 0 - magnitude ELSE magnitude

\* ------------------------------------------- extract_commodity_data

OrEmpty(cell) == IF cell.none THEN <<>> ELSE cell.s
OrNone(s) == IF s = <<>> THEN None ELSE Text(s)
OrKg(s) == IF s = <<>> THEN <<"k", "g">> ELSE s

EXCLUDED_CATEGORIES ==
    { <<"F", "E", "R", "T", "I", "L", "I", "Z", "E", "R">>, <<"I", "N", "S", "E", "C", "T", "I", "C", "I", "D", "E">>, <<"H", "E", "R", "B", "I", "C", "I", "D", "E">>, <<"M", "O", "L", "L", "U", "S", "C", "I", "D", "E">>, <<"R", "O", "D", "E", "N", "T", "I", "C", "I", "D", "E">>,
      <<"P", "E", "S", "T", "I", "C", "I", "D", "E">>, <<"F", "U", "N", "G", "I", "C", "I", "D", "E">>, <<"L", "I", "V", "E", "S", "T", "O", "C", "K", " ", "&", " ", "P", "O", "U", "L", "T", "R", "Y", " ", "F", "E", "E", "D", "S">> }

EXCLUDED_ITEMS ==
    { <<"H", "O", "G", " ", "B", "O", "O", "S", "T", "E", "R">>, <<"H", "O", "G", " ", "P", "R", "E", "-", "S", "T", "A", "R", "T", "E", "R">>, <<"H", "O", "G", " ", "S", "T", "A", "R", "T", "E", "R">>, <<"H", "O", "G", " ", "G", "R", "O", "W", "E", "R">>,
      <<"H", "O", "G", " ", "F", "I", "N", "I", "S", "H", "E", "R">>, <<"L", "A", "C", "T", "A", "T", "I", "N", "G">>, <<"G", "E", "S", "T", "A", "T", "I", "N", "G">>, <<"C", "H", "I", "C", "K", " ", "B", "O", "O", "S", "T", "E", "R">>,
      <<"C", "H", "I", "C", "K", " ", "P", "R", "E", "-", "S", "T", "A", "R", "T", "E", "R">>, <<"C", "H", "I", "C", "K", " ", "S", "T", "A", "R", "T", "E", "R">>, <<"C", "H", "I", "C", "K", " ", "G", "R", "O", "W", "E", "R">>, <<"L", "A", "Y", "E", "R", " ", "M", "A", "S", "H">>,
      <<"L", "A", "Y", "E", "R", " ", "1">>, <<"L", "A", "Y", "E", "R", " ", "2">> }

\* not (not row or len(row) < 5); a row that is None is the empty row
RowRead(row) == ~(row = <<>> \/ Len(row) < 5)

commodity_group_raw(row) == strip(OrEmpty(row[1]))
commodity_name(row) == strip(OrEmpty(row[2]))
specifications(row) == strip(OrEmpty(row[3]))
unit(row) == strip(OrEmpty(row[4]))
\* the price read from the fifth cell, whatever the number of cells
average_price_str_fifth_cell(row) == strip(OrEmpty(row[5]))

average_price_str(row) == strip(OrEmpty(row[Len(row)]))

RowCategory_own_cell(category, row) == strip(upper(commodity_group_raw(row)))

RowCategory(category, row) ==
    IF commodity_group_raw(row) # <<>>
    THEN strip(upper(commodity_group_raw(row)))
    ELSE category

ExcludedByCategory(commodity_group) == commodity_group \in EXCLUDED_CATEGORIES

ExcludedByName_case_sensitive(name) == \E pattern \in EXCLUDED_ITEMS : Contains(pattern, name)

ExcludedByName(name) == \E pattern \in EXCLUDED_ITEMS : Contains(pattern, upper(name))

RowKept(commodity_group, row) ==
    /\ commodity_name(row) # <<>>
    /\ average_price_str(row) # <<>>
    /\ ~ExcludedByCategory(commodity_group)
    /\ ~ExcludedByName(commodity_name(row))
    /\ float_accepts(replace_commas(average_price_str(row)))

\* the appended item; "at" records the page, table and row it was read from
RowItem(commodity_group, row, at) ==
    [name |-> commodity_name(row),
     category |-> commodity_group,
     specifications |-> OrNone(specifications(row)),
     unit |-> OrKg(unit(row)),
     average_price |-> Centavos(replace_commas(average_price_str(row))),
     at |-> at]

\* the loop over the rows of one table from row i on; the header row is row 1
RECURSIVE ParseRows(_, _, _, _, _)
ParseRows(table, i, category, items, where) ==
    IF i > Len(table) THEN [category |-> category, items |-> items]
    ELSE IF i = 1 \/ ~RowRead(table[i])
         THEN ParseRows(table, i + 1, category, items, where)
    ELSE LET group == RowCategory(category, table[i]) IN
         IF RowKept(group, table[i])
         THEN ParseRows(table, i + 1, group,
                        Append(items, RowItem(group, table[i], where \o <<i>>)), where)
         ELSE ParseRows(table, i + 1, group, items, where)

\* the category of the table before is kept
TableStartCategory_carried(category) == category

\* current_category = "" at the start of each table
TableStartCategory(category) == <<>>

ParseTable(table, category, where) ==
    ParseRows(table, 1, TableStartCategory(category), <<>>, where)

\* --------------------------------------------------- documents that are read

MaxRows == 3

Header == <<Text(<<"C", "o", "m", "m", "o", "d", "i", "t", "y">>), Text(<<"N", "a", "m", "e">>), Text(<<"S", "p", "e", "c", "i", "f", "i", "c", "a", "t", "i", "o", "n">>), Text(<<"U", "n", "i", "t">>), Text(<<"A", "v", "e", "r", "a", "g", "e">>)>>
TomatoRow == <<Text(<<"V", "e", "g", "e", "t", "a", "b", "l", "e", "s", " ">>), Text(<<"T", "o", "m", "a", "t", "o">>), Text(<<>>), Text(<<"k", "g">>), Text(<<"7", "0", ".", "0", "0">>), Text(<<"8", "0", ".", "0", "0">>)>>
EggplantRow == <<Text(<<>>), Text(<<" ", "E", "g", "g", "p", "l", "a", "n", "t">>), None, Text(<<>>), Text(<<"1", ",", "2", "3", "4", ".", "5", "0">>)>>
UreaRow == <<Text(<<"f", "e", "r", "t", "i", "l", "i", "z", "e", "r">>), Text(<<"U", "r", "e", "a">>), Text(<<"4", "6", "-", "0", "-", "0">>), Text(<<"b", "a", "g">>), Text(<<"1", ",", "5", "0", "0", ".", "0", "0">>)>>
HogStarterRow == <<Text(<<>>), Text(<<"H", "o", "g", " ", "S", "t", "a", "r", "t", "e", "r", " ", "M", "a", "s", "h">>), Text(<<>>), Text(<<"k", "g">>), Text(<<"4", "5", ".", "0", "0">>)>>
CabbageRow == <<Text(<<>>), Text(<<"C", "a", "b", "b", "a", "g", "e">>), Text(<<>>), Text(<<"k", "g">>), Text(<<"N", "/", "A">>)>>
FruitsRow == <<Text(<<"F", "r", "u", "i", "t", "s">>), Text(<<>>), Text(<<>>), Text(<<>>), Text(<<>>)>>
ShortRow == <<Text(<<"F", "i", "s", "h">>), Text(<<"B", "a", "n", "g", "u", "s">>), Text(<<"k", "g">>), Text(<<"1", "8", "0", ".", "0", "0">>)>>
NoneRow == <<>>
BananaRow == <<None, Text(<<"B", "a", "n", "a", "n", "a">>), None, None, Text(<<"6", "0">>)>>

Rows == {TomatoRow, EggplantRow, UreaRow, HogStarterRow, CabbageRow, FruitsRow,
         ShortRow, NoneRow, BananaRow}

TableOf(body) == <<Header>> \o body
ShortTables == {TableOf(body) : body \in [1..0 -> Rows] \cup [1..1 -> Rows]}

PageOf(tables) == [fails |-> FALSE, tables |-> tables]
FailingPage == [fails |-> TRUE, tables |-> <<>>]
Readable(pages) == [opens |-> TRUE, pages |-> pages]

OneTable(table) == Readable(<<PageOf(<<table>>)>>)

\* documents of two short tables, on one page or on two, and documents that
\* cannot be read to their end
TwoTableDocuments ==
    {NoDocument, Readable(<<>>), Readable(<<FailingPage>>)}
    \cup {Readable(<<PageOf(<<t>>), FailingPage>>) : t \in ShortTables}
    \cup {Readable(<<PageOf(<<t[1], t[2]>>)>>) : t \in ShortTables \X ShortTables}
    \cup {Readable(<<PageOf(<<t[1]>>), PageOf(<<t[2]>>)>>) : t \in ShortTables \X ShortTables}

\* ------------------------------------------------------ the extractor's steps

BeginExtract(document) ==
    /\ xpc = "idle"
    /\ pdf' = document
    /\ xpc' = "open"
    /\ extracted' = <<>>
    /\ xerr' = FALSE
    /\ page_num' = 0
    /\ table_num' = 0
    /\ current_category' = <<>>

CallExtract ==
    /\ xpc = "idle"
    /\ \/ \E document \in TwoTableDocuments : BeginExtract(document)
       \/ \E k \in 0..MaxRows : \E body \in [1..k -> Rows] :
              BeginExtract(OneTable(TableOf(body)))
    /\ UNCHANGED <<storeVars, active, upsertVars, enrichVars, selectVars, jobVars, sweepVars, mainVars>>

\* what the handler of the outer try does with an error
ExtractHandler(items) == items

\* pdfplumber.open(pdf_file)
OpenDocument ==
    /\ xpc = "open"
    /\ IF pdf.opens
       THEN /\ page_num' = 1
            /\ xpc' = "page"
            /\ UNCHANGED <<extracted, xerr>>
       ELSE /\ xerr' = TRUE
            /\ extracted' = ExtractHandler(extracted)
            /\ xpc' = "returned"
            /\ UNCHANGED page_num
    /\ UNCHANGED <<pdf, table_num, current_category>>
    /\ UNCHANGED <<storeVars, active, upsertVars, enrichVars, selectVars, jobVars, sweepVars, mainVars>>

\* the next page of pdf.pages and its extract_tables()
ExtractTables ==
    /\ xpc = "page"
    /\ IF page_num > Len(pdf.pages)
       THEN /\ xpc' = "returned"
            /\ UNCHANGED <<extracted, xerr, table_num>>
       ELSE IF pdf.pages[page_num].fails
       THEN /\ xerr' = TRUE
            /\ extracted' = ExtractHandler(extracted)
            /\ xpc' = "returned"
            /\ UNCHANGED table_num
       ELSE /\ table_num' = 1
            /\ xpc' = "table"
            /\ UNCHANGED <<extracted, xerr>>
    /\ UNCHANGED <<pdf, page_num, current_category>>
    /\ UNCHANGED <<storeVars, active, upsertVars, enrichVars, selectVars, jobVars, sweepVars, mainVars>>

\* the next table of the page and the loop over its rows
ReadTable ==
    /\ xpc = "table"
    /\ IF table_num > Len(pdf.pages[page_num].tables)
       THEN /\ page_num' = page_num + 1
            /\ xpc' = "page"
            /\ UNCHANGED <<table_num, current_category, extracted>>
       ELSE LET parsed == ParseTable(pdf.pages[page_num].tables[table_num],
                                     current_category, <<page_num, table_num>>)
            IN  /\ current_category' = parsed.category
                /\ extracted' = extracted \o parsed.items
                /\ table_num' = table_num + 1
                /\ UNCHANGED <<page_num, xpc>>
    /\ UNCHANGED <<pdf, xerr>>
    /\ UNCHANGED <<storeVars, active, upsertVars, enrichVars, selectVars, jobVars, sweepVars, mainVars>>

NextExtract ==
    \/ CallExtract
    \/ OpenDocument
    \/ ExtractTables
    \/ ReadTable

InitExtractor ==
    /\ store = <<>>
    /\ clock = 0
    /\ active = {"a"}
    /\ InitLocals
    /\ InitOuter

SpecExtract == InitExtractor /\ [][NextExtract]_vars

\* ------------------------------------- claims about extract_commodity_data

ExtractReturned == xpc = "returned"
TableAt(at) == pdf.pages[at[1]].tables[at[2]]
CategoryCell(row) == IF row = <<>> THEN <<>> ELSE strip(OrEmpty(row[1]))
TrimmedUpper(s) == strip(upper(strip(s)))
\* C11: no item of the output has a category of the denylist, and no item of
\* the output has a name that contains, whatever its case, an excluded
\* feed-product pattern, however well-formed the price of its row is.
C11_NoExcludedOutput ==
    \A k \in 1..Len(extracted) :
        /\ extracted[k].category \notin EXCLUDED_CATEGORIES
        /\ \A pattern \in EXCLUDED_ITEMS :
               ~Contains(upper(pattern), upper(extracted[k].name))

\* a table with a priced fertilizer row and a priced hog-starter row has been
\* read, and only its tomato row is in the output
C11_Witness ==
    /\ ExtractReturned
    /\ ~xerr
    /\ pdf = OneTable(<<Header, TomatoRow, HogStarterRow, UreaRow>>)
    /\ Len(extracted) = 1
    /\ extracted[1].name = <<"T", "o", "m", "a", "t", "o">>

\* the nearest row at or before row i, after the header, that has a non-blank
\* category cell; 0 when there is none
RECURSIVE NearestNonBlank(_, _)
NearestNonBlank(table, i) ==
    IF i <= 1 THEN 0
    ELSE IF CategoryCell(table[i]) # <<>> THEN i
    ELSE NearestNonBlank(table, i - 1)

\* the same among the rows that have at least 5 cells
RECURSIVE NearestRead(_, _)
NearestRead(table, i) ==
    IF i <= 1 THEN 0
    ELSE IF RowRead(table[i]) /\ CategoryCell(table[i]) # <<>> THEN i
    ELSE NearestRead(table, i - 1)

\* C12 as stated: every item of the output carries the uppercased, trimmed
\* category cell of its own row when that cell is non-blank, and otherwise of
\* the nearest preceding row of its table that has a non-blank category cell.
C12_InheritsNearestRow ==
    \A k \in 1..Len(extracted) :
        LET table == TableAt(extracted[k].at)
            j == NearestNonBlank(table, extracted[k].at[3])
        IN  j # 0 => extracted[k].category = TrimmedUpper(CategoryCell(table[j]))

\* C12: every item of the output carries the uppercased, trimmed category cell
\* of its own row when that cell is non-blank, and otherwise of the nearest
\* preceding row of its table, after the header and with at least 5 cells,
\* that has a non-blank category cell; it carries the empty string when there
\* is no such row.
C12_InheritsNearestReadRow ==
    \A k \in 1..Len(extracted) :
        LET table == TableAt(extracted[k].at)
            j == NearestRead(table, extracted[k].at[3])
        IN  extracted[k].category =
                IF j = 0 THEN <<>> ELSE TrimmedUpper(CategoryCell(table[j]))

\* the first data row has a category and the next two have none: the three
\* items carry the category of the first
C12_Witness ==
    /\ ExtractReturned
    /\ pdf = OneTable(<<Header, TomatoRow, EggplantRow, BananaRow>>)
    /\ Len(extracted) = 3
    /\ \A k \in 1..3 : extracted[k].category = <<"V", "E", "G", "E", "T", "A", "B", "L", "E", "S">>

\* C13: when the document cannot be opened, or reading a page fails, the
\* extraction raises nothing and returns the empty sequence.
C13_ErrorReturnsEmpty ==
    (ExtractReturned /\ xerr) => extracted = <<>>

\* ------------------------------------------------------ get_latest_pdf_url

Chars(s) == {s[k] : k \in 1..Len(s)}
WordChars == Chars(LowerLetters) \cup Chars(UpperLetters) \cup Chars(DigitChars) \cup {"_"}
SpaceChars == {" "}

\* the end of the longest run of characters of a class that starts at i, and
\* i - 1 when the character at i is not of the class
RECURSIVE RunEnd(_, _, _)
RunEnd(s, i, class) ==
    IF i <= Len(s) /\ s[i] \in class THEN RunEnd(s, i + 1, class) ELSE i - 1

DigitsAt(s, i, n) == i + n - 1 <= Len(s) /\ AllDigits(SubSeq(s, i, i + n - 1))
CharAt(s, i, ch) == i <= Len(s) /\ s[i] = ch

NoMatch == [matched |-> FALSE, month_name |-> <<>>, day |-> <<>>, year |-> <<>>]
Match(month_name, day, year) ==
    [matched |-> TRUE, month_name |-> month_name, day |-> day, year |-> year]

\* re.search(r'(\w+)-(\d{2})-(\d{4})', href): \w+ is followed by "-", so it
\* ends where its run of word characters ends
FilenameMatchAt(s, i) ==
    LET j == RunEnd(s, i, WordChars) IN
        /\ j >= i
        /\ CharAt(s, j + 1, "-")
        /\ DigitsAt(s, j + 2, 2)
        /\ CharAt(s, j + 4, "-")
        /\ DigitsAt(s, j + 5, 4)

\* the position after the run of word characters that starts at i, and
\* i + 1 when none starts there
AfterRun(s, i) == IF RunEnd(s, i, WordChars) >= i THEN RunEnd(s, i, WordChars) + 1 ELSE i + 1

\* the leftmost position from i on where the pattern matches, 0 without one;
\* the positions of one run of word characters match or fail together
RECURSIVE FilenameSearch(_, _)
FilenameSearch(s, i) ==
    IF i > Len(s) THEN 0
    ELSE IF FilenameMatchAt(s, i) THEN i
    ELSE FilenameSearch(s, AfterRun(s, i))

filename_date_match(href) ==
    LET i == FilenameSearch(href, 1)
        j == RunEnd(href, i, WordChars)
    IN  IF i = 0 THEN NoMatch
        ELSE Match(SubSeq(href, i, j), SubSeq(href, j + 2, j + 3), SubSeq(href, j + 5, j + 8))

\* the length of what \d{1,2} takes at i when white space must follow it
DayLength(s, i) ==
    IF DigitsAt(s, i, 2) /\ CharAt(s, i + 2, " ") THEN 2
    ELSE IF DigitsAt(s, i, 1) /\ CharAt(s, i + 1, " ") THEN 1
    ELSE 0

\* re.search(r'(\w+)\s+(\d{1,2})\s+(\d{4})', link_text)
TextMatchAt(s, i) ==
    LET j == RunEnd(s, i, WordChars)
        d == RunEnd(s, j + 1, SpaceChars) + 1
        y == RunEnd(s, d + DayLength(s, d), SpaceChars) + 1
    IN  /\ j >= i
        /\ d > j + 1
        /\ DayLength(s, d) > 0
        /\ DigitsAt(s, y, 4)

RECURSIVE TextSearch(_, _)
TextSearch(s, i) ==
    IF i > Len(s) THEN 0
    ELSE IF TextMatchAt(s, i) THEN i
    ELSE TextSearch(s, AfterRun(s, i))

text_date_match(link_text) ==
    LET i == TextSearch(link_text, 1)
        j == RunEnd(link_text, i, WordChars)
        d == RunEnd(link_text, j + 1, SpaceChars) + 1
        y == RunEnd(link_text, d + DayLength(link_text, d), SpaceChars) + 1
    IN  IF i = 0 THEN NoMatch
        ELSE Match(SubSeq(link_text, i, j),
                   SubSeq(link_text, d, d + DayLength(link_text, d) - 1),
                   SubSeq(link_text, y, y + 3))

MonthNames ==
    << <<"J", "a", "n", "u", "a", "r", "y">>, <<"F", "e", "b", "r", "u", "a", "r", "y">>, <<"M", "a", "r", "c", "h">>, <<"A", "p", "r", "i", "l">>, <<"M", "a", "y">>, <<"J", "u", "n", "e">>, <<"J", "u", "l", "y">>,
       <<"A", "u", "g", "u", "s", "t">>, <<"S", "e", "p", "t", "e", "m", "b", "e", "r">>, <<"O", "c", "t", "o", "b", "e", "r">>, <<"N", "o", "v", "e", "m", "b", "e", "r">>, <<"D", "e", "c", "e", "m", "b", "e", "r">> >>

\* datetime.strptime(month_name, '%B').month; %B takes a full month name in
\* any case; 0 stands for the ValueError
MonthOf(month_name) ==
    LET name == upper(month_name) IN
        IF \E k \in 1..12 : upper(MonthNames[k]) = name
        THEN CHOOSE k \in 1..12 : upper(MonthNames[k]) = name
        ELSE 0

IsLeap(year) == year % 4 = 0 /\ (year % 100 # 0 \/ year % 400 = 0)

DaysIn(year, month) ==
    IF month = 2 THEN (IF IsLeap(year) THEN 29 ELSE 28)
    ELSE IF month \in {4, 6, 9, 11} THEN 30
    ELSE 31

NoDate == [none |-> TRUE, year |-> 0, month |-> 0, day |-> 0]
Date(year, month, day) == [none |-> FALSE, year |-> year, month |-> month, day |-> day]

\* datetime(year, month, day) of a match's groups, or None when strptime or
\* the constructor raises
ParseDate(match) ==
    LET month == MonthOf(match.month_name)
        day == DigitsValue(match.day)
        year == DigitsValue(match.year)
    IN  IF /\ match.matched
           /\ month # 0
           /\ year >= 1
           /\ day >= 1
           /\ day <= DaysIn(year, month)
        THEN Date(year, month, day)
        ELSE NoDate

\* the order of two datetimes
DateKey(date) == (date.year * 12 + date.month) * 31 + date.day

IsPriceMonitoringPdf(href) == Contains(<<"P", "r", "i", "c", "e", "M", "o", "n", "i", "t", "o", "r", "i", "n", "g">>, href) /\ Contains(<<".", "p", "d", "f">>, href)

startswith_http(href) == Len(href) >= 4 /\ SubSeq(href, 1, 4) = <<"h", "t", "t", "p">>

pdf_url(href) == IF startswith_http(href) THEN href ELSE <<"h", "t", "t", "p", "s", ":", "/", "/", "c", "a", "r", "a", "g", "a", ".", "d", "a", ".", "g", "o", "v", ".", "p", "h">> \o href

LinkDate_text_first(link) ==
    LET from_text == ParseDate(text_date_match(link.text)) IN
        IF link.text # <<>> /\ ~from_text.none
        THEN from_text
        ELSE ParseDate(filename_date_match(link.href))

\* pdf_date of one link: the filename's date, and the link text's only when
\* the filename gave none
LinkDate(link) ==
    LET from_filename == ParseDate(filename_date_match(link.href)) IN
        IF ~from_filename.none
        THEN from_filename
        ELSE IF link.text # <<>>
        THEN ParseDate(text_date_match(link.text))
        ELSE NoDate

Candidate(link, at) ==
    [url |-> pdf_url(link.href),
     date |-> LinkDate(link),
     source |-> IF filename_date_match(link.href).matched THEN "filename" ELSE "link_text",
     at |-> at]

\* pdf_candidates.sort(key=date, reverse=True): candidates of equal date keep
\* their order
RECURSIVE InsertByDate(_, _)
InsertByDate(sorted, candidate) ==
    IF sorted = <<>> THEN <<candidate>>
    ELSE IF DateKey(candidate.date) > DateKey(Head(sorted).date)
    THEN <<candidate>> \o sorted
    ELSE <<Head(sorted)>> \o InsertByDate(Tail(sorted), candidate)

RECURSIVE SortedFrom(_, _, _)
SortedFrom(candidates, k, sorted) ==
    IF k > Len(candidates) THEN sorted
    ELSE SortedFrom(candidates, k + 1, InsertByDate(sorted, candidates[k]))

Reversed(s) == [k \in 1..Len(s) |-> s[Len(s) + 1 - k]]

sort_equal_dates_reversed(candidates) == SortedFrom(Reversed(candidates), 1, <<>>)

sort_newest_first(candidates) == SortedFrom(candidates, 1, <<>>)

\* ------------------------------------------------- pages that are fetched

MaxLinks == 2

Link(href, text) == [href |-> href, text |-> text]

October14 == Link(<<"/", "a", "/", "P", "r", "i", "c", "e", "M", "o", "n", "i", "t", "o", "r", "i", "n", "g", "-", "O", "c", "t", "o", "b", "e", "r", "-", "1", "4", "-", "2", "0", "2", "5", ".", "p", "d", "f">>, <<"L", "i", "b", "e", "r", "t", "a", "d">>)
October14Again == Link(<<"/", "b", "/", "P", "r", "i", "c", "e", "M", "o", "n", "i", "t", "o", "r", "i", "n", "g", "-", "O", "c", "t", "o", "b", "e", "r", "-", "1", "4", "-", "2", "0", "2", "5", ".", "p", "d", "f">>, <<>>)
October3Text == Link(<<"/", "P", "r", "i", "c", "e", "M", "o", "n", "i", "t", "o", "r", "i", "n", "g", "_", "3", ".", "p", "d", "f">>, <<"a", "s", " ", "o", "f", " ", "O", "c", "t", "o", "b", "e", "r", " ", " ", "3", " ", "2", "0", "2", "5">>)
November31 == Link(<<"h", "t", "t", "p", ":", "/", "/", "x", ".", "p", "h", "/", "P", "r", "i", "c", "e", "M", "o", "n", "i", "t", "o", "r", "i", "n", "g", "-", "N", "o", "v", "e", "m", "b", "e", "r", "-", "3", "1", "-", "2", "0", "2", "5", ".", "p", "d", "f">>, <<"o", "c", "t", "o", "b", "e", "r", " ", "1", "4", " ", "2", "0", "2", "5">>)
October2 == Link(<<"/", "P", "r", "i", "c", "e", "M", "o", "n", "i", "t", "o", "r", "i", "n", "g", "-", "O", "c", "t", "o", "b", "e", "r", "-", "0", "2", "-", "2", "0", "2", "5", ".", "p", "d", "f">>, <<"D", "e", "c", "e", "m", "b", "e", "r", " ", "2", "5", " ", "2", "0", "2", "5">>)
Undated == Link(<<"/", "P", "r", "i", "c", "e", "M", "o", "n", "i", "t", "o", "r", "i", "n", "g", "-", "l", "a", "t", "e", "s", "t", ".", "p", "d", "f">>, <<"l", "a", "t", "e", "s", "t", " ", "2", "0", "2", "6">>)
Bulletin == Link(<<"/", "B", "u", "l", "l", "e", "t", "i", "n", "-", "D", "e", "c", "e", "m", "b", "e", "r", "-", "2", "5", "-", "2", "0", "2", "5", ".", "p", "d", "f">>, <<"D", "e", "c", "e", "m", "b", "e", "r", " ", "2", "5", " ", "2", "0", "2", "5">>)
Joined == Link(<<"/", "P", "r", "i", "c", "e", "M", "o", "n", "i", "t", "o", "r", "i", "n", "g", "_", "D", "e", "c", "e", "m", "b", "e", "r", "-", "2", "5", "-", "2", "0", "2", "5", ".", "p", "d", "f">>, <<>>)

Links == {October14, October14Again, October3Text, November31, October2, Undated,
          Bulletin, Joined}

PageWith(links) == [ok |-> TRUE, links |-> links]
Pages == {NoPage} \cup UNION {{PageWith(links) : links \in [1..k -> Links]} : k \in 0..MaxLinks}

\* ------------------------------------------------------ the selector's steps

BeginSelect(page) ==
    /\ spc = "idle"
    /\ market_page' = page
    /\ spc' = "get"
    /\ link_num' = 0
    /\ pdf_candidates' = <<>>
    /\ latest' = None

CallSelect ==
    /\ spc = "idle"
    /\ \E page \in Pages : BeginSelect(page)
    /\ UNCHANGED <<storeVars, active, upsertVars, enrichVars, extractVars, jobVars, sweepVars, mainVars>>

\* requests.get and raise_for_status; their error is handled by return None
Fetch ==
    /\ spc = "get"
    /\ IF market_page.ok
       THEN /\ link_num' = 1
            /\ spc' = "links"
            /\ UNCHANGED latest
       ELSE /\ latest' = None
            /\ spc' = "returned"
            /\ UNCHANGED link_num
    /\ UNCHANGED <<market_page, pdf_candidates>>
    /\ UNCHANGED <<storeVars, active, upsertVars, enrichVars, extractVars, jobVars, sweepVars, mainVars>>

\* one turn of the loop over the page's links
ScanLink ==
    /\ spc = "links"
    /\ link_num <= Len(market_page.links)
    /\ LET link == market_page.links[link_num]
           candidate == Candidate(link, link_num)
       IN  pdf_candidates' =
               IF IsPriceMonitoringPdf(link.href) /\ ~candidate.date.none
               THEN Append(pdf_candidates, candidate)
               ELSE pdf_candidates
    /\ link_num' = link_num + 1
    /\ UNCHANGED <<market_page, spc, latest>>
    /\ UNCHANGED <<storeVars, active, upsertVars, enrichVars, extractVars, jobVars, sweepVars, mainVars>>

\* after the loop: None without candidates, else the first of the sorted list
SelectLatest ==
    /\ spc = "links"
    /\ link_num > Len(market_page.links)
    /\ IF pdf_candidates = <<>>
       THEN /\ latest' = None
            /\ UNCHANGED pdf_candidates
       ELSE LET sorted == sort_newest_first(pdf_candidates) IN
                /\ pdf_candidates' = sorted
                /\ latest' = Text(sorted[1].url)
    /\ spc' = "returned"
    /\ UNCHANGED <<market_page, link_num>>
    /\ UNCHANGED <<storeVars, active, upsertVars, enrichVars, extractVars, jobVars, sweepVars, mainVars>>

NextSelect ==
    \/ CallSelect
    \/ Fetch
    \/ ScanLink
    \/ SelectLatest

InitSelector ==
    /\ store = <<>>
    /\ clock = 0
    /\ active = {"a"}
    /\ InitLocals
    /\ InitOuter

SpecSelect == InitSelector /\ [][NextSelect]_vars

\* ----------------------------------------- claims about get_latest_pdf_url

SelectReturned == spc = "returned"
Newest(candidates, k) ==
    \A j \in 1..Len(candidates) : DateKey(candidates[j].date) <= DateKey(candidates[k].date)
FirstOfItsDate(candidates, k) ==
    \A j \in 1..Len(candidates) :
        candidates[j].date = candidates[k].date => candidates[j].at >= candidates[k].at

\* C14: the URL get_latest_pdf_url returns is the URL of a candidate whose
\* date is the greatest of all candidates, and of the one that comes first on
\* the page among the candidates of that date.
C14_LatestFirstOfNewest ==
    (SelectReturned /\ ~latest.none) =>
        \E k \in 1..Len(pdf_candidates) :
            /\ latest.s = pdf_candidates[k].url
            /\ Newest(pdf_candidates, k)
            /\ FirstOfItsDate(pdf_candidates, k)

\* two links of the same date after an older one: the first of the two is returned
C14_Witness ==
    /\ SelectReturned
    /\ market_page = PageWith(<<October14Again, October14>>)
    /\ Len(pdf_candidates) = 2
    /\ latest = Text(pdf_url(October14Again.href))

\* ------------------------------------------------------------------- run

Scraper == "a"

\* the characters of a string, as the string the store and the upsert hold
RECURSIVE Join(_)
Join(s) == IF s = <<>> THEN "" ELSE Head(s) \o Join(Tail(s))

ToItem(x) ==
    [name |-> Join(x.name),
     category |-> Join(x.category),
     specifications |-> IF x.specifications.none THEN JNull ELSE JStr(Join(x.specifications.s)),
     unit |-> Join(x.unit),
     average_price |-> x.average_price]

ToItems(xs) == [k \in 1..Len(xs) |-> ToItem(xs[k])]

\* what download_pdf may return: None, or the bytes of a document
MarketDocuments ==
    {NoDocument,
     OneTable(<<Header, CabbageRow>>),
     OneTable(<<Header, TomatoRow>>),
     OneTable(<<Header, EggplantRow>>)}
Downloads ==
    {[none |-> TRUE, document |-> NoDocument]}
    \cup {[none |-> FALSE, document |-> d] : d \in MarketDocuments}

BeginRun ==
    /\ rpc = "idle"
    /\ rpc' = "download"
    /\ run_ret' = FALSE
    /\ run_count' = 0

\* pdf_file = self.download_pdf(pdf_url); if not pdf_file: return False
Download ==
    /\ rpc = "download"
    /\ \E pdf_file \in Downloads :
          IF pdf_file.none
          THEN /\ rpc' = "returned"
               /\ run_ret' = FALSE
               /\ UNCHANGED extractVars
          ELSE /\ BeginExtract(pdf_file.document)
               /\ rpc' = "extract"
               /\ UNCHANGED run_ret
    /\ UNCHANGED <<jpc, market_num, total_processed, outcomes, job_ok, run_count>>
    /\ UNCHANGED <<storeVars, active, upsertVars, enrichVars, selectVars, sweepVars, mainVars>>

\* if not commodities: return False; else insert_to_supabase(commodities)
Extracted ==
    /\ rpc = "extract"
    /\ xpc = "returned"
    /\ xpc' = "idle"
    /\ IF extracted = <<>>
       THEN /\ rpc' = "returned"
            /\ run_ret' = FALSE
            /\ UNCHANGED upsertVars
       ELSE /\ Begin(Scraper, ToItems(extracted))
            /\ rpc' = "insert"
            /\ UNCHANGED <<run_ret, record, nutrition, data, log>>
    /\ UNCHANGED <<pdf, page_num, table_num, current_category, extracted, xerr>>
    /\ UNCHANGED <<jpc, market_num, total_processed, outcomes, job_ok, run_count>>
    /\ UNCHANGED <<storeVars, active, enrichVars, selectVars, sweepVars, mainVars>>

\* count = self.insert_to_supabase(commodities); return True
run_ret_after_insert(count) == TRUE

Inserted ==
    /\ rpc = "insert"
    /\ pc[Scraper] = "done"
    /\ pc' = [pc EXCEPT ![Scraper] = "idle"]
    /\ run_count' = ret[Scraper]
    /\ run_ret' = run_ret_after_insert(ret[Scraper])
    /\ rpc' = "returned"
    /\ UNCHANGED <<commodities, idx, record, nutrition, data, inserted, updated, ret, log>>
    /\ UNCHANGED <<jpc, market_num, total_processed, outcomes, job_ok>>
    /\ UNCHANGED <<storeVars, active, enrichVars, extractVars, selectVars, sweepVars, mainVars>>

\* ------------------------------------------------------ daily_update_job

MARKETS == <<"Libertad Public Market", "Mayor Salvador Calo Public Market (Butuan City)">>

JobLinks == 1
MarketPages ==
    {NoPage} \cup UNION {{PageWith(links) : links \in [1..k -> Links]} : k \in 0..JobLinks}

Outcome(market, url, ran, success, count) ==
    [market |-> market, url |-> url, ran |-> ran, success |-> success, count |-> count]

JobStart ==
    /\ jpc = "idle"
    /\ jpc' = "select"
    /\ market_num' = 1
    /\ total_processed' = 0
    /\ outcomes' = <<>>
    /\ job_ok' = "none"
    /\ UNCHANGED <<rpc, run_ret, run_count>>
    /\ UNCHANGED <<storeVars, active, upsertVars, enrichVars, extractVars, selectVars, sweepVars, mainVars>>

\* pdf_url = get_latest_pdf_url(market_url), for the next market of MARKETS
JobSelect ==
    /\ jpc = "select"
    /\ market_num <= Len(MARKETS)
    /\ \E page \in MarketPages : BeginSelect(page)
    /\ jpc' = "selecting"
    /\ UNCHANGED <<market_num, total_processed, outcomes, job_ok, rpc, run_ret, run_count>>
    /\ UNCHANGED <<storeVars, active, upsertVars, enrichVars, extractVars, sweepVars, mainVars>>

\* if not pdf_url: continue
OnNoDocument(n) == n + 1

\* get_latest_pdf_url has returned, and its locals are gone
JobSelected ==
    /\ jpc = "selecting"
    /\ spc = "returned"
    /\ spc' = "idle"
    /\ IF latest.none \/ latest.s = <<>>
       THEN /\ outcomes' = Append(outcomes, Outcome(MARKETS[market_num], latest, FALSE, FALSE, 0))
            /\ market_num' = OnNoDocument(market_num)
            /\ jpc' = "select"
            /\ UNCHANGED <<rpc, run_ret, run_count>>
       ELSE /\ BeginRun
            /\ jpc' = "run"
            /\ UNCHANGED <<outcomes, market_num>>
    /\ market_page' = NoPage
    /\ link_num' = 0
    /\ pdf_candidates' = <<>>
    /\ UNCHANGED latest
    /\ UNCHANGED <<total_processed, job_ok>>
    /\ UNCHANGED <<storeVars, active, upsertVars, enrichVars, extractVars, sweepVars, mainVars>>

\* success = scraper.run(pdf_url); if success: total_processed += 1
JobRan ==
    /\ jpc = "run"
    /\ rpc = "returned"
    /\ rpc' = "idle"
    /\ outcomes' = Append(outcomes, Outcome(MARKETS[market_num], latest, TRUE, run_ret, run_count))
    /\ total_processed' = IF run_ret THEN total_processed + 1 ELSE total_processed
    /\ market_num' = market_num + 1
    /\ jpc' = "select"
    /\ UNCHANGED <<job_ok, run_ret, run_count>>
    /\ UNCHANGED <<storeVars, active, upsertVars, enrichVars, extractVars, selectVars, sweepVars, mainVars>>

\* after the loop: if total_processed > 0 the update is logged as completed,
\* else as failed
JobReport ==
    /\ jpc = "select"
    /\ market_num > Len(MARKETS)
    /\ job_ok' = IF total_processed > 0 THEN "completed" ELSE "failed"
    /\ jpc' = "done"
    /\ UNCHANGED <<market_num, total_processed, outcomes, rpc, run_ret, run_count>>
    /\ UNCHANGED <<storeVars, active, upsertVars, enrichVars, extractVars, selectVars, sweepVars, mainVars>>

NextJob ==
    \/ JobStart
    \/ JobSelect
    \/ Fetch
    \/ ScanLink
    \/ SelectLatest
    \/ JobSelected
    \/ Download
    \/ OpenDocument
    \/ ExtractTables
    \/ ReadTable
    \/ Extracted
    \/ LookupFails(Scraper)
    \/ Lookup(Scraper)
    \/ AnswerUpsert(Scraper)
    \/ Enriched(Scraper)
    \/ Patch(Scraper)
    \/ Insert(Scraper)
    \/ Inserted
    \/ JobRan
    \/ JobReport

InitJobRun ==
    /\ store = <<>>
    /\ clock = 1
    /\ active = {Scraper}
    /\ InitLocals
    /\ InitOuter

SpecJob == InitJobRun /\ [][NextJob]_vars

\* ------------------------- claims about the selection and daily_update_job

FilenameDate(link) == ParseDate(filename_date_match(link.href))
TextDate(link) == ParseDate(text_date_match(link.text))
Dated(link) == ~FilenameDate(link).none \/ ~TextDate(link).none
NoneReturned == SelectReturned /\ latest.none
SkipStep ==
    /\ jpc' = "select"
    /\ market_num' = market_num + 1
    /\ Len(outcomes') = Len(outcomes) + 1
    /\ ~outcomes'[Len(outcomes')].ran
    /\ rpc' = "idle"
    /\ store' = store
    /\ total_processed' = total_processed

\* C15: a candidate's date is the date of the filename pattern when that
\* parses and the date of the link text otherwise; a link of which neither
\* parses is no candidate and its URL is not returned on its account; when
\* the fetch fails or no link is dated the function returns None; and on None
\* daily_update_job records the market as not run and goes on to the next.
C15_DateSourcesAndSkip ==
    /\ [](/\ \A k \in 1..Len(pdf_candidates) :
                LET link == market_page.links[pdf_candidates[k].at] IN
                    /\ ~pdf_candidates[k].date.none
                    /\ pdf_candidates[k].date =
                           IF ~FilenameDate(link).none THEN FilenameDate(link)
                           ELSE TextDate(link)
          /\ (SelectReturned /\ ~latest.none) =>
                \E k \in 1..Len(market_page.links) :
                    /\ Dated(market_page.links[k])
                    /\ latest.s = pdf_url(market_page.links[k].href)
          /\ (SelectReturned /\ (~market_page.ok \/ \A k \in 1..Len(market_page.links) :
                                                      ~Dated(market_page.links[k])))
                => latest.none
          /\ \A k \in 1..Len(outcomes) :
                outcomes[k].url.none => (~outcomes[k].ran /\ outcomes[k].market = MARKETS[k]))
    /\ [][(jpc = "selecting" /\ NoneReturned) => SkipStep]_vars

\* the first market had no document and was skipped, and for the second the
\* selection has returned a URL whose date came from the link text, the
\* filename having matched the pattern without being a date
C15_Witness ==
    /\ Len(outcomes) = 1
    /\ outcomes[1].url.none
    /\ ~outcomes[1].ran
    /\ market_num = 2
    /\ jpc = "selecting"
    /\ SelectReturned
    /\ market_page = PageWith(<<November31>>)
    /\ pdf_candidates[1].date = Date(2025, 10, 14)
    /\ latest = Text(November31.href)

ItemsWritten(k) == outcomes[k].ran /\ outcomes[k].count > 0
MarketsWritten == {k \in 1..Len(outcomes) : ItemsWritten(k)}

\* C17: a market for which no item was inserted or updated, because the
\* download failed, the extraction was empty or every write failed, is a
\* failed market: run returns False for it and total_processed does not
\* count it.
C17_ZeroItemsReportedFailed ==
    /\ \A k \in 1..Len(outcomes) : ~ItemsWritten(k) => ~outcomes[k].success
    /\ total_processed <= Cardinality(MarketsWritten)

\* C18: the markets are attempted once each in the order of MARKETS, whatever
\* became of the earlier ones, and the final report is "completed" exactly
\* when for at least one market an item was inserted or updated.
C18_AllAttemptedReportIffOneWritten ==
    /\ Len(outcomes) <= Len(MARKETS)
    /\ \A k \in 1..Len(outcomes) : outcomes[k].market = MARKETS[k]
    /\ jpc = "done" =>
          /\ Len(outcomes) = Len(MARKETS)
          /\ job_ok = "completed" <=> MarketsWritten # {}

\* -------------------------------------------------- fix_all_null_records

\* the select of the sweep's GET
SweepColumns ==
    {"id", "name", "category", "carbs_per_100g", "calories_per_100g", "common_allergens"}

\* the answer to the GET without a row filter: every row, cut to the columns
all_records(rows) == [k \in 1..Len(rows) |-> [c \in SweepColumns |-> rows[k][c]]]

StoredRow(rows, id) == CHOOSE r \in {rows[k] : k \in 1..Len(rows)} : r["id"] = id

\* {**nutrition, 'updated_at': get_philippine_timestamp()}
sweep_data(profile, now) == Merge(profile, [updated_at |-> get_philippine_timestamp(now)])

BeginSweep(p) ==
    /\ fpc[p] = "idle"
    /\ fpc' = [fpc EXCEPT ![p] = "get"]
    /\ null_records' = [null_records EXCEPT ![p] = <<>>]
    /\ fix_num' = [fix_num EXCEPT ![p] = 0]
    /\ fixed' = [fixed EXCEPT ![p] = 0]

\* the end of one iteration of the loop over null_records
AfterRecord(p, count) ==
    /\ fixed' = [fixed EXCEPT ![p] = count]
    /\ IF fix_num[p] < Len(null_records[p])
       THEN /\ fix_num' = [fix_num EXCEPT ![p] = @ + 1]
            /\ fpc' = [fpc EXCEPT ![p] = "enrich"]
            /\ EnterEnrich(p)
       ELSE /\ fpc' = [fpc EXCEPT ![p] = "done"]
            /\ UNCHANGED <<fix_num, enrichVars>>

\* the GET, outside any try, and the filter of its rows
SweepRead(p) ==
    /\ p \in active
    /\ fpc[p] = "get"
    /\ \/ /\ fpc' = [fpc EXCEPT ![p] = "raised"]
          /\ UNCHANGED <<null_records, fix_num, fixed, enrichVars>>
       \/ LET selected == SelectSeq(all_records(store), has_any_null_nutrition) IN
              /\ null_records' = [null_records EXCEPT ![p] = selected]
              /\ fixed' = fixed
              /\ IF selected = <<>>
                 THEN /\ fpc' = [fpc EXCEPT ![p] = "done"]
                      /\ UNCHANGED <<fix_num, enrichVars>>
                 ELSE /\ fpc' = [fpc EXCEPT ![p] = "enrich"]
                      /\ fix_num' = [fix_num EXCEPT ![p] = 1]
                      /\ EnterEnrich(p)
    /\ UNCHANGED <<storeVars, active, upsertVars, extractVars, selectVars, jobVars, mainVars>>

\* one answer of the inference service to the call made for the record
AnswerSweep(p) ==
    /\ p \in active
    /\ fpc[p] = "enrich"
    /\ epc[p] = "post"
    /\ \E answer \in FewAnswers : Post(p, answer)
    /\ UNCHANGED <<storeVars, active, upsertVars, extractVars, selectVars, jobVars, sweepVars, mainVars>>

\* get_ai_nutrition has returned: time.sleep(3), then the body of the patch
SweepEnriched(p) ==
    /\ p \in active
    /\ fpc[p] = "enrich"
    /\ epc[p] = "returned"
    /\ LET rec == null_records[p][fix_num[p]] IN
       IF eret[p].raised
       THEN /\ log' = [log EXCEPT ![p] =
                         Append(@, Event("sweep_enrich", fix_num[p], 0, TRUE, StoredRow(store, rec["id"])))]
            /\ AfterRecord(p, fixed[p])
            /\ UNCHANGED <<nutrition, data, clock>>
       ELSE /\ log' = [log EXCEPT ![p] =
                         Append(@, Event("sweep_enrich", fix_num[p], 0, FALSE, StoredRow(store, rec["id"])))]
            /\ nutrition' = [nutrition EXCEPT ![p] = eret[p].profile]
            /\ data' = [data EXCEPT ![p] = sweep_data(eret[p].profile, clock)]
            /\ clock' = clock + 1
            /\ fpc' = [fpc EXCEPT ![p] = "patch"]
            /\ epc' = [epc EXCEPT ![p] = "idle"]
            /\ UNCHANGED <<fix_num, fixed, retry_count, requests, waits, answers, eret>>
    /\ UNCHANGED <<store, active, pc, commodities, idx, record, inserted, updated, ret, null_records>>
    /\ UNCHANGED <<extractVars, selectVars, jobVars, mainVars>>

\* requests.patch by the record's id; its response is not looked at
SweepPatch(p) ==
    /\ p \in active
    /\ fpc[p] = "patch"
    /\ LET rec == null_records[p][fix_num[p]] IN
       \E answer \in WriteAnswers :
          /\ store' = IF Applied(answer) THEN ApplyPatch(store, rec["id"], data[p]) ELSE store
          /\ log' = [log EXCEPT ![p] =
                       Append(@, Event("sweep_patch", fix_num[p], 0, FALSE,
                                       StoredRow(store, rec["id"])))]
          /\ AfterRecord(p, IF answer.raised THEN fixed[p] ELSE fixed[p] + 1)
    /\ UNCHANGED <<clock, active, pc, commodities, idx, record, nutrition, data, inserted, updated, ret, null_records>>
    /\ UNCHANGED <<extractVars, selectVars, jobVars, mainVars>>

\* ------------------------------------------------------------------ main

\* the clock reading after which main is not started again
MaxClock == 2

\* scraper = CaragaPriceScraper(); the sweep when fix_nulls, else the run when
\* pdf_url is given, else return True
Main ==
    /\ mpc = "idle"
    /\ clock <= MaxClock
    /\ \E given \in BOOLEAN, fix_nulls \in BOOLEAN :
          /\ main_args' = [pdf_url |-> given, fix_nulls |-> fix_nulls]
          /\ IF fix_nulls
             THEN /\ BeginSweep(Scraper)
                  /\ mpc' = "sweep"
                  /\ UNCHANGED <<main_ret, rpc, run_ret, run_count>>
             ELSE IF given
             THEN /\ BeginRun
                  /\ mpc' = "run"
                  /\ UNCHANGED <<main_ret, sweepVars>>
             ELSE /\ main_ret' = "True"
                  /\ mpc' = "exit"
                  /\ UNCHANGED <<sweepVars, rpc, run_ret, run_count>>
    /\ UNCHANGED upsertVars
    /\ UNCHANGED <<jpc, market_num, total_processed, outcomes, job_ok>>
    /\ UNCHANGED <<storeVars, active, enrichVars, extractVars, selectVars>>

\* fix_all_null_records has returned, or its GET has raised out of main
Swept ==
    /\ mpc = "sweep"
    /\ fpc[Scraper] \in {"done", "raised"}
    /\ fpc' = [fpc EXCEPT ![Scraper] = "idle"]
    /\ IF fpc[Scraper] = "raised"
       THEN /\ main_ret' = "raised"
            /\ mpc' = "exit"
            /\ UNCHANGED <<rpc, run_ret, run_count>>
       ELSE IF main_args.pdf_url
       THEN /\ BeginRun
            /\ mpc' = "run"
            /\ UNCHANGED main_ret
       ELSE /\ main_ret' = "True"
            /\ mpc' = "exit"
            /\ UNCHANGED <<rpc, run_ret, run_count>>
    /\ UNCHANGED <<null_records, fix_num, fixed, main_args>>
    /\ UNCHANGED <<jpc, market_num, total_processed, outcomes, job_ok>>
    /\ UNCHANGED <<storeVars, active, upsertVars, enrichVars, extractVars, selectVars>>

\* return scraper.run(pdf_url)
Ran ==
    /\ mpc = "run"
    /\ rpc = "returned"
    /\ rpc' = "idle"
    /\ main_ret' = IF run_ret THEN "True" ELSE "False"
    /\ mpc' = "exit"
    /\ UNCHANGED <<main_args, run_ret, run_count>>
    /\ UNCHANGED <<jpc, market_num, total_processed, outcomes, job_ok>>
    /\ UNCHANGED <<storeVars, active, upsertVars, enrichVars, extractVars, selectVars, sweepVars>>

\* the process ends: nothing of it is left but the store
Exit ==
    /\ mpc = "exit"
    /\ pc' = [p \in Procs |-> "idle"]
    /\ commodities' = [p \in Procs |-> <<>>]
    /\ idx' = [p \in Procs |-> 0]
    /\ record' = [p \in Procs |-> NoRow]
    /\ nutrition' = [p \in Procs |-> get_default_nutrition]
    /\ data' = [p \in Procs |-> NoRow]
    /\ inserted' = [p \in Procs |-> 0]
    /\ updated' = [p \in Procs |-> 0]
    /\ ret' = [p \in Procs |-> 0]
    /\ log' = [p \in Procs |-> <<>>]
    /\ pdf' = NoDocument
    /\ xpc' = "idle"
    /\ page_num' = 0
    /\ table_num' = 0
    /\ current_category' = <<>>
    /\ extracted' = <<>>
    /\ xerr' = FALSE
    /\ null_records' = [p \in Procs |-> <<>>]
    /\ fix_num' = [p \in Procs |-> 0]
    /\ fixed' = [p \in Procs |-> 0]
    /\ run_ret' = FALSE
    /\ run_count' = 0
    /\ main_args' = [pdf_url |-> FALSE, fix_nulls |-> FALSE]
    /\ main_ret' = "none"
    /\ mpc' = "idle"
    /\ UNCHANGED <<fpc, rpc, jpc, market_num, total_processed, outcomes, job_ok>>
    /\ UNCHANGED <<storeVars, active, enrichVars, selectVars>>

NextMain ==
    \/ Main
    \/ SweepRead(Scraper)
    \/ AnswerSweep(Scraper)
    \/ SweepEnriched(Scraper)
    \/ SweepPatch(Scraper)
    \/ Swept
    \/ Download
    \/ OpenDocument
    \/ ExtractTables
    \/ ReadTable
    \/ Extracted
    \/ LookupFails(Scraper)
    \/ Lookup(Scraper)
    \/ AnswerUpsert(Scraper)
    \/ Enriched(Scraper)
    \/ Patch(Scraper)
    \/ Insert(Scraper)
    \/ Inserted
    \/ Ran
    \/ Exit

\* the table before the first invocation: empty, or a bare and a complete row
MainStores == {WithIds(<<>>), WithIds(<<RiceBare, TomatoComplete>>)}

InitMainRun ==
    /\ store \in MainStores
    /\ clock = 1
    /\ active = {Scraper}
    /\ InitLocals
    /\ InitOuter

SpecMain == InitMainRun /\ [][NextMain]_vars

\* ----------------------------------- claims about the sweep and the store

SweepEvents == {k \in 1..Len(log[Scraper]) : log[Scraper][k].op \in {"sweep_enrich", "sweep_patch"}}
SweptId(id) == \E k \in SweepEvents : log[Scraper][k].row["id"] = id
Ids(rows) == {rows[k]["id"] : k \in 1..Len(rows)}
IsInsertOf(old, new) == Len(new) = Len(old) + 1 /\ SubSeq(new, 1, Len(old)) = old
IsPatchById(old, new) ==
    /\ Len(new) = Len(old)
    /\ \E id \in Ids(old) :
          \A k \in 1..Len(old) :
              /\ new[k]["id"] = old[k]["id"]
              /\ new[k] # old[k] => old[k]["id"] = id

\* C16: the sweep calls get_ai_nutrition for a record and patches it exactly
\* when a tracked nutrition column of the record is null in the store; a
\* record whose tracked columns are all non-null is left alone.
C16_SweepExactlyNullRecords ==
    /\ \A k \in SweepEvents : AnyTrackedNull(log[Scraper][k].row)
    /\ fpc[Scraper] = "done" =>
          \A k \in 1..Len(store) : AnyTrackedNull(store[k]) => SweptId(store[k]["id"])

\* C19: no step of main, of the sweep or of the run removes a record: the ids
\* of the store never shrink, and a step that changes the store appends one
\* record or changes the records of one id.
C19_NeverRemoved ==
    [][/\ Ids(store) \subseteq Ids(store')
       /\ Len(store') >= Len(store)
       /\ store' # store => (IsInsertOf(store, store') \/ IsPatchById(store, store'))]_vars

\* the sweep has patched the two records of the table and the run has then
\* inserted a third
C19_Witness ==
    /\ mpc = "run"
    /\ main_args.fix_nulls
    /\ Len(store) = 3
    /\ store[3]["name"] = JStr("Eggplant")
    /\ store[1]["updated_at"] # JTime(0)
    /\ store[2]["updated_at"] # JTime(0)

\* ------------------------------------------- two instances of the upsert

\* one instance is given one item
CallOne(p) ==
    /\ pc[p] = "idle"
    /\ \E item \in Items : Begin(p, <<item>>)
    /\ UNCHANGED <<storeVars, active, record, nutrition, data, log, enrichVars, outerVars>>

NextRace ==
    \/ \E p \in Procs : CallOne(p)
    \/ \E p \in Procs : LookupFails(p)
    \/ \E p \in Procs : Lookup(p)
    \/ \E p \in Procs : AnswerUpsert(p)
    \/ \E p \in Procs : Enriched(p)
    \/ \E p \in Procs : Patch(p)
    \/ \E p \in Procs : Insert(p)

InitRace ==
    /\ store = <<>>
    /\ clock = 1
    /\ active = Procs
    /\ InitLocals
    /\ InitOuter

SpecRace == InitRace /\ [][NextRace]_vars

\* ----------------------------------------------- claims about the two instances

RowsNamed(rows, name) == {k \in 1..Len(rows) : rows[k]["name"] = JStr(name)}
HasDuplicate(rows) == \E item \in Items : Cardinality(RowsNamed(rows, item.name)) >= 2
InsertApplied(p, name) ==
    \E k \in 1..Len(log[p]) :
        /\ log[p][k].op = "insert"
        /\ ~log[p][k].raised
        /\ log[p][k].status \in 200..299
        /\ log[p][k].row["name"] = JStr(name)
        /\ \E j \in 1..(k - 1) : NotFoundAt(p, j)

\* C20: the lookup and the insert of an instance are two steps, and the other
\* instance may take its own between them: when both instances found the name
\* absent and the insert of each is applied, the store holds two records of
\* the name, and no later step takes a duplicate away.
C20_DuplicateNotPreventedNorRepaired ==
    /\ [](\A item \in Items :
             (\A p \in Procs : InsertApplied(p, item.name)) =>
                 Cardinality(RowsNamed(store, item.name)) >= 2)
    /\ [][HasDuplicate(store) => HasDuplicate(store')]_vars

\* both instances found no Tomato, both inserted one, and the store holds two
C20_Witness ==
    /\ \A p \in Procs : pc[p] = "done" /\ InsertApplied(p, "Tomato")
    /\ Len(store) = 2
    /\ Cardinality(RowsNamed(store, "Tomato")) = 2

\* --------------------------------- insert_to_supabase called a second time

\* Every lookup of the call was answered, get_ai_nutrition returned for every
\* item it was called for, and every write was answered 2xx.
AllSucceeded(events) == \A k \in DOMAIN events : ~FailedStep(events[k])

\* What the log keeps of a call that has returned: its counts.
CallMark(ins, upd) == Event("call", 0, 0, FALSE, [inserted |-> ins, updated |-> upd])

CalledAgain(p) == log[p] # <<>> /\ log[p][1].op = "call"

\* insert_to_supabase has returned from a call in which every step succeeded,
\* and is called again by the same instance on the same commodities: the
\* counters start from 0 again.
CallAgain(p) ==
    /\ p \in active
    /\ pc[p] = "done"
    /\ epc[p] = "idle"
    /\ ~CalledAgain(p)
    /\ AllSucceeded(log[p])
    /\ log' = [log EXCEPT ![p] = <<CallMark(inserted[p], updated[p])>>]
    /\ IF commodities[p] = <<>>
       THEN /\ pc' = [pc EXCEPT ![p] = "done"]
            /\ idx' = idx
       ELSE /\ pc' = [pc EXCEPT ![p] = "lookup"]
            /\ idx' = [idx EXCEPT ![p] = 1]
    /\ inserted' = [inserted EXCEPT ![p] = 0]
    /\ updated' = [updated EXCEPT ![p] = 0]
    /\ ret' = [ret EXCEPT ![p] = 0]
    /\ UNCHANGED <<storeVars, active, commodities, record, nutrition, data,
                   enrichVars, outerVars>>

NextAgain ==
    \/ \E p \in Procs : Call(p)
    \/ \E p \in Procs : CallAgain(p)
    \/ \E p \in Procs : LookupFails(p)
    \/ \E p \in Procs : Lookup(p)
    \/ \E p \in Procs : AnswerUpsert(p)
    \/ \E p \in Procs : Enriched(p)
    \/ \E p \in Procs : Patch(p)
    \/ \E p \in Procs : Insert(p)

SpecAgain == Init /\ [][NextAgain]_vars

\* The entries of the second call.
SecondCall(p) == Tail(log[p])

NutritionOf(rows) == [k \in DOMAIN rows |-> [c \in ProfileFields |-> rows[k][c]]]

\* C21: after a first call in which every lookup and every write succeeded,
\* the second call on the same commodities never enters get_ai_nutrition and
\* never sends an insert, its writes are patches of the four price columns
\* only, and none of its steps changes the number of records or a nutrition
\* column of the store.
C21_SecondCallPriceOnly ==
    /\ [](\A p \in Procs :
            CalledAgain(p) =>
                /\ epc[p] = "idle"
                /\ pc[p] \notin {"enrich_update", "enrich_insert", "insert"}
                /\ \A k \in DOMAIN SecondCall(p) :
                      /\ SecondCall(p)[k].op \in {"lookup", "patch"}
                      /\ SecondCall(p)[k].op = "patch" =>
                            DOMAIN SecondCall(p)[k].row = PriceColumns)
    /\ [][(\E p \in Procs : CalledAgain(p)) =>
              /\ Len(store') = Len(store)
              /\ NutritionOf(store') = NutritionOf(store)]_vars

\* the first call inserted one item and patched another, and the second call
\* has returned after two patches answered 200
C21_Witness ==
    \E p \in Procs :
        /\ CalledAgain(p)
        /\ pc[p] = "done"
        /\ log[p][1].row = [inserted |-> 1, updated |-> 1]
        /\ Len(SecondCall(p)) = 4
        /\ AllSucceeded(SecondCall(p))
        /\ ret[p] = 2

\* ------------------------------------- claims about get_ai_nutrition's defaults

\* The last answer parsed as a JSON object, and the object's fields.
ParsedObject(p) ==
    /\ LastAnswer(p).kind = "ok"
    /\ ~LoadsRaises(StripFence(LastAnswer(p).text))
    /\ Loads(StripFence(LastAnswer(p).text)).kind = "object"
ParsedFields(p) == Loads(StripFence(LastAnswer(p).text)).fields

\* A present value of the field's own JSON type: a number for a macro, a whole
\* number for calories and the glycemic index, a boolean for a flag, a string
\* for the allergens.
OwnType(f, v) ==
    CASE f \in FloatFields -> v.t = "num"
      [] f \in IntFields -> v.t = "num" /\ v.n % 10 = 0
      [] f \in FlagFields -> v.t = "bool"
      [] OTHER -> v.t = "str"

\* The returned value is the parsed one: the same number, boolean or string.
SameValue(v, r) == v.t = r.t /\ v.n = r.n /\ v.s = r.s /\ (v.t = "bool" => v.b = r.b)

\* C22: when the response parses as a JSON object whose present values are of
\* their fields' types, each numeric macro missing or null is returned as 0, a
\* missing or null glycemic index as 50, missing or null allergens as "none",
\* a missing flag as true, and every field present with a non-null value, a
\* numeric 0 included, is returned with that value.
C22_DefaultsOnlyWhenMissingOrNull ==
    \A p \in Procs :
        (/\ EnrichReturned(p)
         /\ ParsedObject(p)
         /\ \A f \in ProfileFields :
               IsNone(ParsedFields(p)[f]) \/ OwnType(f, ParsedFields(p)[f])) =>
            \A f \in ProfileFields :
                LET v == ParsedFields(p)[f]
                    r == eret[p].profile[f]
                IN  /\ (IsNone(v) /\ f \notin FlagFields) =>
                           SameValue(get_default_nutrition[f], r)
                    /\ v = JMissing => SameValue(get_default_nutrition[f], r)
                    /\ ~IsNone(v) => SameValue(v, r)

\* --------------------------- claims about the rows extract_commodity_data keeps

\* the row an item was read from, and the rows of the document after their
\* tables' headers, by page, table and row
RowAt(at) == TableAt(at)[at[3]]
DataRows ==
    UNION {UNION {{<<pg, t, i>> : i \in 2..Len(pdf.pages[pg].tables[t])} :
                     t \in 1..Len(pdf.pages[pg].tables)} :
              pg \in 1..Len(pdf.pages)}

LastCell(row) == strip(OrEmpty(row[Len(row)]))
Numeral(row) == SelectSeq(LastCell(row), LAMBDA ch : ch # ",")

\* fewer than 5 cells, a blank name, a blank price cell, or a price cell that
\* is no numeral once its thousands separators are removed
Dropped(row) ==
    \/ Len(row) < 5
    \/ strip(OrEmpty(row[2])) = <<>>
    \/ LastCell(row) = <<>>
    \/ ~float_accepts(Numeral(row))

\* the row's category is of the denylist, or its name holds an excluded pattern
Denied(at) ==
    LET j == NearestRead(TableAt(at), at[3]) IN
        \/ j # 0 /\ TrimmedUpper(CategoryCell(TableAt(at)[j])) \in EXCLUDED_CATEGORIES
        \/ \E pattern \in EXCLUDED_ITEMS : Contains(pattern, upper(OrEmpty(RowAt(at)[2])))

\* page, table and row order
Before(a, b) ==
    \/ a[1] < b[1]
    \/ a[1] = b[1] /\ a[2] < b[2]
    \/ a[1] = b[1] /\ a[2] = b[2] /\ a[3] < b[3]

\* C23: every item of the output has a non-empty trimmed name, a non-empty
\* unit, "kg" when the unit cell is blank, and the price of its row's last
\* cell with the thousands separators removed; no item comes from a row with
\* fewer than 5 cells, a blank name, a blank price cell or an unparseable
\* price; the items are in table-row order; and when the document was read to
\* its end, every row that is neither dropped nor excluded has its item.
C23_KeptRowsInOrder ==
    /\ \A k \in 1..Len(extracted) :
          LET item == extracted[k]
              row == RowAt(item.at)
          IN  /\ item.name # <<>>
              /\ item.name = strip(item.name)
              /\ item.name = strip(OrEmpty(row[2]))
              /\ item.unit # <<>>
              /\ item.unit = IF strip(OrEmpty(row[4])) = <<>> THEN <<"k", "g">>
                             ELSE strip(OrEmpty(row[4]))
              /\ item.average_price = Centavos(Numeral(row))
              /\ item.at[3] > 1
              /\ ~Dropped(row)
    /\ \A j, k \in 1..Len(extracted) : j < k => Before(extracted[j].at, extracted[k].at)
    /\ (ExtractReturned /\ ~xerr) =>
          \A at \in DataRows :
              (~Dropped(RowAt(at)) /\ ~Denied(at)) =>
                  \E k \in 1..Len(extracted) : extracted[k].at = at

\* a table whose middle row has the price cell N/A has been read to its end:
\* the rows around it are in the output in their order, the first with the
\* price of its sixth and last cell, the second with 1,234.50 read as 1234.50
\* and the unit kg for its blank unit cell
C23_Witness ==
    /\ ExtractReturned
    /\ ~xerr
    /\ pdf = OneTable(<<Header, TomatoRow, CabbageRow, EggplantRow>>)
    /\ Len(extracted) = 2
    /\ extracted[1].name = <<"T", "o", "m", "a", "t", "o">>
    /\ extracted[1].average_price = 8000
    /\ extracted[2].name = <<"E", "g", "g", "p", "l", "a", "n", "t">>
    /\ extracted[2].average_price = 123450
    /\ extracted[2].unit = <<"k", "g">>

\* ------------------------------- insert_to_supabase called again and again

\* The next call of the instance, while the clock has not run out.
CallInTime(p) ==
    /\ clock <= MaxClock
    /\ Call(p)

\* insert_to_supabase has returned to its caller: nothing of the call is left
\* but the store.
Return(p) ==
    /\ p \in active
    /\ pc[p] = "done"
    /\ epc[p] = "idle"
    /\ pc' = [pc EXCEPT ![p] = "idle"]
    /\ commodities' = [commodities EXCEPT ![p] = <<>>]
    /\ idx' = [idx EXCEPT ![p] = 0]
    /\ record' = [record EXCEPT ![p] = NoRow]
    /\ nutrition' = [nutrition EXCEPT ![p] = get_default_nutrition]
    /\ data' = [data EXCEPT ![p] = NoRow]
    /\ inserted' = [inserted EXCEPT ![p] = 0]
    /\ updated' = [updated EXCEPT ![p] = 0]
    /\ ret' = [ret EXCEPT ![p] = 0]
    /\ log' = [log EXCEPT ![p] = <<>>]
    /\ eret' = [eret EXCEPT ![p] = Returned(get_default_nutrition)]
    /\ UNCHANGED <<storeVars, active, epc, retry_count, requests, waits, answers, outerVars>>

NextCalls ==
    \/ \E p \in Procs : CallInTime(p)
    \/ \E p \in Procs : Return(p)
    \/ \E p \in Procs : LookupFails(p)
    \/ \E p \in Procs : Lookup(p)
    \/ \E p \in Procs : AnswerUpsert(p)
    \/ \E p \in Procs : Enriched(p)
    \/ \E p \in Procs : Patch(p)
    \/ \E p \in Procs : Insert(p)

\* The tables of the first call: each name at most once.
CallStores ==
    {WithIds(rows) : rows \in {<<>>, <<TomatoComplete>>, <<RiceBare, TomatoComplete>>}}

InitCalls ==
    /\ store \in CallStores
    /\ clock = 1
    /\ active = {"a"}
    /\ InitLocals
    /\ InitOuter

SpecCalls == InitCalls /\ [][NextCalls]_vars

UniqueNames(rows) ==
    \A j, k \in 1..Len(rows) : rows[j]["name"] = rows[k]["name"] => j = k

\* C24: with one instance and a store that starts with every name at most
\* once, no state holds two records of one name, whatever the calls and their
\* batches; an insert is sent only for a name the store holds no record of, so
\* of several items of one name in a batch only the first can insert.
C24_NamesStayUnique ==
    /\ [](UniqueNames(store))
    /\ [][\A p \in Procs :
             (pc[p] = "insert" /\ log'[p] # log[p]) =>
                 RowsNamed(store, Item(p).name) = {}]_vars

\* an earlier call has patched the Tomato record, and a later call of a batch
\* of twice Rice has inserted Rice for the first item and patched that record
\* for the second
C24_Witness ==
    \E p \in Procs :
        /\ pc[p] = "done"
        /\ commodities[p] = <<Rice, Rice>>
        /\ Ops(log[p]) = <<"lookup", "enrich", "sleep", "insert", "lookup", "patch">>
        /\ log[p][4].status = 200
        /\ log[p][6].status = 200
        /\ Len(store) = 2
        /\ store[1]["updated_at"] = JTime(1)
        /\ Cardinality(RowsNamed(store, "Rice")) = 1

\* -------------------------------- claims about records with a null dietary flag

\* a record whose seven tracked columns are non-null and which has a null flag
FlagOnlyNull(row) ==
    /\ ~AnyTrackedNull(row)
    /\ \E f \in FlagFields : row[f].t = "null"

\* the step is the answered lookup of the item, and it found the k-th record
LookupFinds(p, k) ==
    /\ pc[p] = "lookup"
    /\ log'[p] # log[p]
    /\ ~log'[p][Len(log'[p])].raised
    /\ log'[p][Len(log'[p])].row # NoRow
    /\ log'[p][Len(log'[p])].row["id"] = store[k]["id"]

CategoryAfter(table) ==
    IF NearestRead(table, Len(table)) = 0 THEN <<>>
    ELSE TrimmedUpper(CategoryCell(table[NearestRead(table, Len(table))]))

\* the step reads one table
ReadsTable == xpc = "table" /\ table_num' = table_num + 1

\* C26: the inherited category starts empty in every table and is set by the
\* rows after the header that have at least 5 cells, kept or dropped: what a
\* table leaves in current_category does not depend on the tables before, an
\* item's category is that of the nearest such row of its own table, and a
\* row with a blank category cell before the first category cell of its table
\* is output with the empty category unless it is dropped or its name is
\* excluded, whatever the category the table before ended with.
C26_CategoryStaysInTable ==
    /\ [](/\ \A k \in 1..Len(extracted) :
                LET table == TableAt(extracted[k].at)
                    j == NearestRead(table, extracted[k].at[3])
                IN  /\ j = 0 => extracted[k].category = <<>>
                    /\ j # 0 => extracted[k].category = TrimmedUpper(CategoryCell(table[j]))
          /\ (ExtractReturned /\ ~xerr) =>
                \A at \in DataRows :
                    (/\ NearestRead(TableAt(at), at[3]) = 0
                     /\ ~Dropped(RowAt(at))
                     /\ ~\E pattern \in EXCLUDED_ITEMS :
                            Contains(pattern, upper(OrEmpty(RowAt(at)[2])))) =>
                        \E k \in 1..Len(extracted) :
                            extracted[k].at = at /\ extracted[k].category = <<>>)
    /\ [][ReadsTable =>
              current_category' = CategoryAfter(pdf.pages[page_num].tables[table_num])]_vars

\* the table of the first page ends in the category FERTILIZER, the table of
\* the second page starts with a row whose category cell is blank: that row is
\* in the output with the empty category
C26_Witness ==
    /\ ExtractReturned
    /\ ~xerr
    /\ pdf = Readable(<<PageOf(<<TableOf(<<UreaRow>>)>>), PageOf(<<TableOf(<<EggplantRow>>)>>)>>)
    /\ Len(extracted) = 1
    /\ extracted[1].name = <<"E", "g", "g", "p", "l", "a", "n", "t">>
    /\ extracted[1].category = <<>>
    /\ extracted[1].at = <<2, 1, 2>>

====
